---- MODULE Spec2Model ----
(***************************************************************************)
(* State-machine model of the schedule_modes integration:                  *)
(*   - ModeSwitch (switch.py): on/off, expire_at, one-shot expiry timer,   *)
(*     restore on start and post-start reassert;                           *)
(*   - CalendarOverrideSwitch (switch.py): a persisted boolean gate;       *)
(*   - ModeCalendar (calendar.py): event create/update/delete, the         *)
(*     persisted event collection, queries, the reconciliation tick and    *)
(*     the Bris -> No Tachnun link;                                        *)
(*   - reloads of the config entry (__init__.py) and Store writes that     *)
(*     fail;                                                               *)
(*   - the handlers of ModeCalendar taken in two steps, up to and from     *)
(*     their first await, for commands that arrive while one waits;        *)
(*   - the sensor manager _Mgr (sensor.py): event sensors and Old Events.  *)
(*                                                                         *)
(* Time is counted in minutes.  Service calls made with blocking=False    *)
(* and timer callbacks only create tasks; the tasks wait in the FIFO       *)
(* `queue` until RunTask applies them.                                     *)
(*                                                                         *)
(* Every ModeCalendar owns its own list `_events_all` (a shallow copy of   *)
(* the list loaded at setup), so the lists are per mode (`events_all[m]`)  *)
(* and hold references (uids) into `obj`, the event dicts of the process.  *)
(***************************************************************************)
EXTENDS Integers, Sequences, FiniteSets, TLC

\* ---------------------------------------------------------------- bounds
MaxTime == 2        \* the clock runs over 0..MaxTime (minutes)
MaxEvents == 3      \* number of uids uuid4 hands out in one behaviour
MaxQueue == 3       \* tasks that may wait in the event loop at once
MaxMinutes == 1     \* largest `minutes` argument / default_minutes

\* ------------------------------------------------------------- constants
SecondsPerMinute == 60
MinTimerDelay == 1          \* _start_timer: delay = max(1.0, seconds)
RestoreMinRemaining == 1    \* async_added_to_hass: `if remaining > 1`

NoneVal == -1       \* Python None (also: unparseable endpoint)
Absent == -2        \* key not present in a payload / kwargs
NoKwarg == "absent" \* controlled_by not passed in kwargs
NoKey == "<no key>" \* a text-valued key that the dict does not have
NoneStr == "<None>" \* Python None as the value of a text-valued key
DefaultSummary == "Event"   \* _extract_summary: `... or "Event"`

Modes == {"bris", "no_tachnun"}
LinkSource == "bris"
LinkTarget == "no_tachnun"

Instants == 0..MaxTime
UIDs == 1..MaxEvents
EmptyUid == 0

Max2(a, b) == IF a >= b THEN a ELSE b

\* ----------------------------------------------------------- event dicts
\* description = extra.description, linked = extra.linked_from_bris (FALSE:
\* no key), bris_uid = extra.bris_event_uid (0: no key).  The `created`
\* stamp is written once by _add_event_internal and read by nothing; it is
\* left out.
NoObj == [uid |-> 0, mode_key |-> "", start |-> NoneVal, end |-> NoneVal,
          summary |-> "", description |-> NoKey,
          linked |-> FALSE, bris_uid |-> 0]

\* the payload of a create or update command: start / end (Absent: no key),
\* summary and description (NoKey: no key) and the keys linked_from_bris
\* (FALSE: no key) and bris_event_uid (0: no key)
Payload(s, e) ==
    [start |-> s, end |-> e, summary |-> NoKey, description |-> NoKey,
     linked_from_bris |-> FALSE, bris_event_uid |-> 0]

\* the empty dict
NoPayload == Payload(Absent, Absent)

\* _extract_summary: payload.get("summary") or ... or "Event"
ExtractSummary(payload) ==
    IF payload.summary \in {NoKey, NoneStr, ""} THEN DefaultSummary
    ELSE payload.summary

\* f"Bris: {bris_event['summary']}"
LinkSummary(summary) == "Bris: " \o summary

\* the dict _add_event_internal builds: `extra` takes every key of the
\* payload but the summary and endpoint keys
NewEvent(u, m, s, e, summary, original) ==
    [uid |-> u, mode_key |-> m, start |-> s, end |-> e, summary |-> summary,
     description |-> original.description,
     linked |-> original.linked_from_bris,
     bris_uid |-> original.bris_event_uid]

\* a linked event that does not record which Bris event it mirrors
LinkedEventWithoutSource(u, bris_event) ==
    [uid |-> u, mode_key |-> LinkTarget, start |-> bris_event.start,
     end |-> bris_event.end, summary |-> LinkSummary(bris_event.summary),
     description |-> NoKey, linked |-> TRUE, bris_uid |-> EmptyUid]

LinkedEvent(u, bris_event) ==
    [uid |-> u, mode_key |-> LinkTarget, start |-> bris_event.start,
     end |-> bris_event.end, summary |-> LinkSummary(bris_event.summary),
     description |-> NoKey, linked |-> TRUE, bris_uid |-> bris_event.uid]

\* _coerce_endpoint / _to_iso: a well-formed instant is normalised to its ISO
\* form (the same instant), anything else (missing, unparseable) gives None.
CoerceEndpoint(v) == IF v \in Instants THEN v ELSE NoneVal

\* dt_util.parse_datetime of a stored endpoint: None for a None/garbled value
ParseDatetime(v) == IF v \in Instants THEN v ELSE NoneVal

\* ------------------------------------------------------------ the switch
\* restored_expire_at is history: the expire_at of the record the switch was
\* restored ON from (the entity itself keeps only _expire_at).
\* forced_on is history: the switch is ON and it was a command issued by the
\* link part of the Bris tick that found it off and turned it on.
\* stale: the due instants of the timers still pending on the ModeSwitch
\* objects of this mode that a reload removed.
InitSwitch(dm) ==
    [is_on |-> FALSE, expire_at |-> NoneVal, timer |-> NoneVal,
     unsub |-> FALSE, default_minutes |-> Max2(0, dm),
     controlled_by |-> "manual", restored_on |-> FALSE, orphans |-> {},
     restored_expire_at |-> NoneVal, forced_on |-> FALSE, stale |-> {}]

\* history: `after` is the switch `before` once `src` has acted on it; the
\* ON state belongs to whoever found the switch off and turned it on
OnSrc(before, after, src) ==
    [after EXCEPT !.forced_on = /\ after.is_on
                                /\ IF before.is_on THEN before.forced_on
                                   ELSE src = "link"]

\* the due instants (seconds) of the timers of a switch that have not fired:
\* the one _unsub_timer refers to (timer) and those armed earlier and never
\* cancelled, which no handle refers to any more (orphans)
PendingTimers(s) == s.orphans \cup (IF s.timer = NoneVal THEN {} ELSE {s.timer})
NumPending(s) == Cardinality(s.orphans) + (IF s.timer = NoneVal THEN 0 ELSE 1)

\* a cancel that leaves the armed timer running
CancelTimerKeepsTimer(s) == s

\* `if self._unsub_timer: self._unsub_timer(); self._unsub_timer = None`
CancelTimer(s) == [s EXCEPT !.timer = NoneVal, !.unsub = FALSE]

\* _start_timer(seconds): the timer's due instant, in seconds; the handle is
\* overwritten, a timer it referred to keeps running
StartTimer(s, nowSec, seconds) ==
    [s EXCEPT !.timer = nowSec + Max2(MinTimerDelay, seconds),
              !.unsub = TRUE,
              !.orphans = @ \cup (IF s.timer = NoneVal THEN {} ELSE {s.timer})]

\* an arming that does not cancel the timer armed before
ScheduleExpirationNoCancel(s, nowMin, minutes) ==
    IF minutes <= 0
    THEN [s EXCEPT !.expire_at = NoneVal]
    ELSE StartTimer([s EXCEPT !.expire_at = nowMin + minutes],
                    nowMin * SecondsPerMinute,
                    ((nowMin + minutes) - nowMin) * SecondsPerMinute)

ScheduleExpiration(s, nowMin, minutes) ==
    LET c == CancelTimer(s) IN
    IF minutes <= 0
    THEN [c EXCEPT !.expire_at = NoneVal]
    ELSE StartTimer([c EXCEPT !.expire_at = nowMin + minutes],
                    nowMin * SecondsPerMinute,
                    ((nowMin + minutes) - nowMin) * SecondsPerMinute)

\* a turn-on that takes a missing `minutes` as 0
SwitchTurnOnIgnoresDefault(s, nowMin, by, minutes) ==
    LET s1 == [s EXCEPT !.is_on = TRUE,
                        !.controlled_by = IF by = NoKwarg THEN "manual" ELSE by]
        mn == IF minutes = Absent THEN 0 ELSE minutes
    IN ScheduleExpiration(s1, nowMin, IF mn = NoneVal THEN 0 ELSE mn)

\* async_turn_on(**kwargs): by = NoKwarg / minutes = Absent when the key is missing
SwitchTurnOn(s, nowMin, by, minutes) ==
    LET s1 == [s EXCEPT !.is_on = TRUE,
                        !.controlled_by = IF by = NoKwarg THEN "manual" ELSE by]
        mn == IF minutes = Absent THEN s.default_minutes ELSE minutes
    IN ScheduleExpiration(s1, nowMin, IF mn = NoneVal THEN 0 ELSE mn)

\* a turn-off that leaves controlled_by and expire_at as they were
SwitchTurnOffKeepsOwner(s, by) ==
    CancelTimer([s EXCEPT !.is_on = FALSE])

\* a turn-off that leaves expire_at as it was
SwitchTurnOffKeepsExpiry(s, by) ==
    CancelTimer([s EXCEPT !.is_on = FALSE,
                          !.controlled_by = IF by = NoKwarg THEN "manual" ELSE by])

\* async_turn_off(**kwargs)
SwitchTurnOff(s, by) ==
    CancelTimer([s EXCEPT !.is_on = FALSE,
                          !.controlled_by = IF by = NoKwarg THEN "manual" ELSE by,
                          !.expire_at = NoneVal])

\* ------------------------------------------------------------------ state
VARIABLES
    now,            \* dt_util.now(), in minutes
    linkEnabled,    \* entry.options[OPT_LINK_NO_TACHANUN_FOR_BRIS]
    sw,             \* ModeSwitch per mode
    ovr,            \* CalendarOverrideSwitch._is_on per mode
    events_all,     \* ModeCalendar._events_all per mode: a list of references
    obj,            \* the event dicts the lists refer to, by uid
    persisted,      \* the event collection last saved to the Store
    nextUid,        \* the next uid uuid4 hands out
    linked_nt_on,   \* ModeCalendar._linked_nt_on of the Bris calendar
    queue,          \* tasks created and not yet run (FIFO)
    started,        \* EVENT_HOMEASSISTANT_STARTED has been fired
    pending,        \* handlers suspended in `await self._persist()` (FIFO)
    ents,           \* _Mgr.ents: per uid the dict (_ev) of its event sensor
    old,            \* the keys of _OldEventsSensor._events
    last            \* what the last step did: operation, outcome, outputs

vars == <<now, linkEnabled, sw, ovr, events_all, obj, persisted, nextUid,
          linked_nt_on, queue, started, pending, ents, old, last>>

\* --------------------------------------------------------- the calendars
\* the dicts a list of references stands for
Deref(o, list) == [i \in 1..Len(list) |-> o[list[i]]]

\* _my_events over a list of dicts
RECURSIVE MyEvents(_, _)
MyEvents(evs, m) ==
    IF evs = <<>> THEN <<>>
    ELSE IF Head(evs).mode_key = m
         THEN <<Head(evs)>> \o MyEvents(Tail(evs), m)
         ELSE MyEvents(Tail(evs), m)

\* a service call switch.<op> {"entity_id": ...}, blocking=False: no kwargs
ServiceCall(target, op, src) ==
    [target |-> target, op |-> op, by |-> NoKwarg, src |-> src]

\* the loop of _tick over _my_events(); acc = [active, next_up, cmds]
RECURSIVE TickLoop(_, _, _, _, _)
TickLoop(evs, m, t, switch_on, acc) ==
    IF evs = <<>> THEN acc
    ELSE
      LET e == Head(evs)
          st == ParseDatetime(e.start)
          en == ParseDatetime(e.end)
          calendar_override_on == ovr[m]
          isActive == st <= t /\ t < en
          a1 == IF isActive
                THEN [acc EXCEPT !.active = e,
                        !.cmds = IF ~calendar_override_on /\ ~switch_on
                                 THEN Append(@, ServiceCall(m, "turn_on", "calendar"))
                                 ELSE @]
                ELSE IF st > t /\ (acc.next_up = NoObj \/ st < ParseDatetime(acc.next_up.start))
                     THEN [acc EXCEPT !.next_up = e]
                     ELSE acc
          a2 == IF ~calendar_override_on /\ t >= en /\ switch_on
                THEN [a1 EXCEPT !.cmds = Append(@, ServiceCall(m, "turn_off", "calendar"))]
                ELSE a1
      IN IF st = NoneVal \/ en = NoneVal
         THEN TickLoop(Tail(evs), m, t, switch_on, acc)
         ELSE TickLoop(Tail(evs), m, t, switch_on, a2)

\* a tick whose final turn-off does not look at the calendar override
TickIgnoringOverride(m, evs, t, sws, linked_flag) ==
    LET loop == TickLoop(MyEvents(evs, m), m, t, sws[m].is_on,
                         [active |-> NoObj, next_up |-> NoObj, cmds |-> <<>>])
        c1 == IF loop.active = NoObj /\ sws[m].is_on
              THEN Append(loop.cmds, ServiceCall(m, "turn_off", "calendar"))
              ELSE loop.cmds
        link == linkEnabled /\ m = LinkSource
        nt_on == sws[LinkTarget].is_on
        c2 == IF link /\ loop.active # NoObj /\ ~nt_on
              THEN Append(c1, ServiceCall(LinkTarget, "turn_on", "link"))
              ELSE IF link /\ loop.active = NoObj /\ linked_flag /\ nt_on
                   THEN Append(c1, ServiceCall(LinkTarget, "turn_off", "link"))
                   ELSE c1
        flag == IF link /\ loop.active # NoObj /\ ~nt_on THEN TRUE
                ELSE IF link /\ loop.active = NoObj THEN FALSE
                ELSE linked_flag
    IN [cmds |-> c2, active |-> loop.active, next_up |-> loop.next_up,
        current |-> IF loop.active # NoObj THEN loop.active ELSE loop.next_up,
        linked_nt_on |-> flag]

\* _tick of mode m over the dicts evs of its list, with the link option
\* link_enabled: the commands it issues, the active / next event it publishes
\* and the new value of _linked_nt_on
TickOpt(link_enabled, m, evs, t, sws, linked_flag) ==
    LET loop == TickLoop(MyEvents(evs, m), m, t, sws[m].is_on,
                         [active |-> NoObj, next_up |-> NoObj, cmds |-> <<>>])
        c1 == IF loop.active = NoObj /\ ~ovr[m] /\ sws[m].is_on
              THEN Append(loop.cmds, ServiceCall(m, "turn_off", "calendar"))
              ELSE loop.cmds
        link == link_enabled /\ m = LinkSource
        nt_on == sws[LinkTarget].is_on
        c2 == IF link /\ loop.active # NoObj /\ ~nt_on
              THEN Append(c1, ServiceCall(LinkTarget, "turn_on", "link"))
              ELSE IF link /\ loop.active = NoObj /\ linked_flag /\ nt_on
                   THEN Append(c1, ServiceCall(LinkTarget, "turn_off", "link"))
                   ELSE c1
        flag == IF link /\ loop.active # NoObj /\ ~nt_on THEN TRUE
                ELSE IF link /\ loop.active = NoObj THEN FALSE
                ELSE linked_flag
    IN [cmds |-> c2, active |-> loop.active, next_up |-> loop.next_up,
        current |-> IF loop.active # NoObj THEN loop.active ELSE loop.next_up,
        linked_nt_on |-> flag]

\* _tick under the options of the entry
Tick(m, evs, t, sws, linked_flag) ==
    TickOpt(linkEnabled, m, evs, t, sws, linked_flag)

\* a lookup by uid alone, whatever the mode of the dict
RECURSIVE FindEventAnyMode(_, _, _, _)
FindEventAnyMode(evs, uid, m, i) ==
    IF i > Len(evs) THEN 0
    ELSE IF evs[i].uid = uid THEN i
    ELSE FindEventAnyMode(evs, uid, m, i + 1)

\* index of the first dict of the list with this uid and mode_key (0: none)
RECURSIVE FindEvent(_, _, _, _)
FindEvent(evs, uid, m, i) ==
    IF i > Len(evs) THEN 0
    ELSE IF evs[i].uid = uid /\ evs[i].mode_key = m THEN i
    ELSE FindEvent(evs, uid, m, i + 1)

\* index of the first No Tachnun dict whose extra.bris_event_uid is bris_uid
RECURSIVE FindLinked(_, _, _)
FindLinked(evs, bris_uid, i) ==
    IF i > Len(evs) THEN 0
    ELSE IF evs[i].mode_key = LinkTarget /\ evs[i].bris_uid = bris_uid THEN i
    ELSE FindLinked(evs, bris_uid, i + 1)

\* async_delete_event: the list without the dicts with this uid and mode_key
RemoveEvent(list, o, uid, m) ==
    SelectSeq(list, LAMBDA u : ~(o[u].uid = uid /\ o[u].mode_key = m))

\* _sync_bris_to_no_tachnun_delete: the list without the linked dicts of bris_uid
RemoveLinked(list, o, bris_uid) ==
    SelectSeq(list, LAMBDA u : ~(o[u].mode_key = LinkTarget /\ o[u].bris_uid = bris_uid))

\* dicts no list refers to any more are gone
Referenced(lists) == UNION {{lists[m][i] : i \in 1..Len(lists[m])} : m \in Modes}
Collect(o, lists) == [u \in UIDs |-> IF u \in Referenced(lists) THEN o[u] ELSE NoObj]

\* the link policy gives a different answer: only Bris events are protected
LinkPolicyBlocksBrisOnly(m, e) == m = LinkSource /\ e.linked

\* `self.mode_key == "no_tachnun" and e.get("extra", {}).get("linked_from_bris")`
LinkPolicyBlocks(m, e) == m = LinkTarget /\ e.linked

\* what a step reports in `last`
\* op/mode/uid/arg: the operation and its inputs; result: its outcome;
\* issued: the tasks it created (for op = "task": the task that ran);
\* armed_before: for a command to a switch, its pending timers before it;
\* found: per mode, what a restart or the startup signal found the switch in;
\* payloads: the change notifications it sent, in order, each with the event
\*   list it carried and the collection the Store held when it was sent;
\* published: how many change notifications it sent;
\* event: the payload of a create or update that went through;
\* window, returned: for a query, its window and the events it returned;
\* active: for a step that ran _tick, the dict it published in the
\*   active-event sensor (NoObj: state "none");
\* current: for a step that ran _tick, the dict the calendar's current event
\*   (self._event) was made from (NoObj: None)
Report(op, m, uid, arg, result, issued, published) ==
    [op |-> op, mode |-> m, uid |-> uid, arg |-> arg, result |-> result,
     issued |-> issued, published |-> published, armed_before |-> 0,
     found |-> [mm \in Modes |-> ""], payloads |-> <<>>, event |-> NoPayload,
     window |-> <<>>, returned |-> <<>>, active |-> NoObj, current |-> NoObj]

\* which Store write of a handler fails (store.async_save raises): none, the
\* handler's own, or the one of the link propagation at its end
NoFail == "none"
OwnWrite == "own"
LinkWrite == "link"
Failures == {NoFail, OwnWrite, LinkWrite}

\* a notification sent before the list is saved: the Store still holds the
\* collection saved before
PublishThenPersist(o, list, saved_before) ==
    [payload |-> Deref(o, list), saved |-> saved_before]

\* `await self._persist()` ... `async_dispatcher_send(..., list(self._events_all))`:
\* the notification sent once the list is saved
PersistThenPublish(o, list, saved_before) ==
    [payload |-> Deref(o, list), saved |-> Deref(o, list)]

\* ------------------------------------------------------------------- Init
Init ==
    /\ now = 0
    /\ linkEnabled \in BOOLEAN
    /\ \E dm \in [Modes -> 0..MaxMinutes] : sw = [m \in Modes |-> InitSwitch(dm[m])]
    /\ ovr = [m \in Modes |-> FALSE]
    /\ events_all = [m \in Modes |-> <<>>]
    /\ obj = [u \in UIDs |-> NoObj]
    /\ persisted = <<>>
    /\ nextUid = 1
    /\ linked_nt_on = FALSE
    /\ queue = <<>>
    /\ started = FALSE
    /\ pending = <<>>
    /\ ents = [u \in UIDs |-> NoObj]
    /\ old = {}
    /\ last = Report("init", "", 0, Absent, "ok", <<>>, 0)

\* ---------------------------------------------------- the sensor manager
\* the entry of this model and another one
ThisEntry == "entry"
OtherEntry == "other entry"

\* has_finished adds timedelta(days=1) to the end
MinutesPerDay == 1440

\* the uids that have an event sensor
Live(es) == {u \in UIDs : es[u] # NoObj}

\* the dict the loop of _on_events leaves in the sensor of uid u: the last
\* dict of the list with this uid
LastWithUid(events, u) ==
    events[CHOOSE i \in 1..Len(events) :
              /\ events[i].uid = u
              /\ \A j \in (i + 1)..Len(events) : events[j].uid # u]

\* a handling that creates and updates sensors and removes none
OnEventsKeepsDeleted(st, entry_id, events) ==
    LET incoming == {events[i].uid : i \in 1..Len(events)}
    IN IF entry_id # ThisEntry THEN st
       ELSE [ents |-> [u \in UIDs |-> IF u \in incoming THEN LastWithUid(events, u)
                                      ELSE st.ents[u]],
             old |-> st.old]

\* _Mgr._on_events(entry_id, events) on the manager state st = [ents, old]:
\* a sensor is created or updated for every dict of the list, the sensors of
\* the uids that are not in the list are popped and recorded in Old Events
OnEvents(st, entry_id, events) ==
    LET incoming == {events[i].uid : i \in 1..Len(events)}
        deleted_ids == Live(st.ents) \ incoming
    IN IF entry_id # ThisEntry THEN st
       ELSE [ents |-> [u \in UIDs |-> IF u \in incoming THEN LastWithUid(events, u)
                                      ELSE NoObj],
             old |-> st.old \cup deleted_ids]

\* the notifications of one handler, handled in the order they were sent
RECURSIVE OnEventsAll(_, _)
OnEventsAll(st, payloads) ==
    IF payloads = <<>> THEN st
    ELSE OnEventsAll(OnEvents(st, ThisEntry, Head(payloads).payload), Tail(payloads))

\* async_dispatcher_send(SIGNAL_EVENTS_UPDATED, entry_id, list(...)): the
\* manager handles every notification the step has sent
Delivered(payloads) ==
    LET st == OnEventsAll([ents |-> ents, old |-> old], payloads) IN
    /\ ents' = st.ents
    /\ old' = st.old

\* the platforms are set up: a new manager with a new Old Events sensor is
\* connected before the calendar platform, which awaits the Store, sends the
\* loaded list
Setup(events) ==
    LET st == OnEvents([ents |-> [u \in UIDs |-> NoObj], old |-> {}],
                       ThisEntry, events) IN
    /\ ents' = st.ents
    /\ old' = st.old

\* _EventSensor.has_finished(now)
HasFinished(ev, t) ==
    LET en == ParseDatetime(ev.end) IN
    IF en = NoneVal THEN FALSE ELSE t >= en + MinutesPerDay

\* ------------------------------------------------- event store operations
\* a handler that returns before it touches anything; the report names the
\* calendar and the uid only for a not-found or link-policy rejection
Rejected(op, m, uid, result) ==
    /\ last' = Report(op, m, uid, Absent, result, <<>>, 0)
    /\ UNCHANGED <<ents, old, pending, now, linkEnabled, sw, ovr, events_all, obj, persisted,
                   nextUid, linked_nt_on, queue, started>>

\* _add_event_internal, with _sync_bris_to_no_tachnun_create at its end.
\* A failing write of its own raises out of it: the dict stays appended,
\* nothing is saved, ticked or sent.  A failing write of the link propagation
\* is caught inside it: the linked dict stays appended, unsaved and unsent.
AddEventInternal(m, start_iso, end_iso, summary, original, fail) ==
    LET link == m = LinkSource /\ linkEnabled
        ev == NewEvent(nextUid, m, start_iso, end_iso, summary, original)
        list1 == Append(events_all[m], ev.uid)
        obj1 == [obj EXCEPT ![ev.uid] = ev]
        tick == Tick(m, Deref(obj1, list1), now, sw, linked_nt_on)
        nt_event == LinkedEvent(nextUid + 1, ev)
        list2 == IF link THEN Append(list1, nt_event.uid) ELSE list1
        obj2 == IF link THEN [obj1 EXCEPT ![nt_event.uid] = nt_event] ELSE obj1
    IN IF fail = OwnWrite
       THEN /\ nextUid <= MaxEvents
            /\ events_all' = [events_all EXCEPT ![m] = list1]
            /\ obj' = obj1
            /\ nextUid' = nextUid + 1
            /\ last' = [Report("create", m, ev.uid, Absent, "write_failed", <<>>, 0)
                          EXCEPT !.event = original]
            /\ UNCHANGED <<ents, old, pending, now, linkEnabled, sw, ovr, persisted, linked_nt_on,
                           queue, started>>
       ELSE
       /\ fail = LinkWrite => link
       /\ nextUid + (IF link THEN 1 ELSE 0) <= MaxEvents
       /\ Len(tick.cmds) <= MaxQueue
       /\ events_all' = [events_all EXCEPT ![m] = list2]
       /\ obj' = obj2
       /\ persisted' = IF fail = LinkWrite THEN Deref(obj1, list1)
                       ELSE Deref(obj2, list2)
       /\ nextUid' = nextUid + (IF link THEN 2 ELSE 1)
       /\ queue' = queue \o tick.cmds
       /\ linked_nt_on' = tick.linked_nt_on
       /\ last' = [Report("create", m, ev.uid, Absent,
                          IF fail = LinkWrite THEN "link_write_failed" ELSE "ok",
                          tick.cmds, IF link /\ fail = NoFail THEN 2 ELSE 1)
                     EXCEPT !.payloads =
                        <<PersistThenPublish(obj1, list1, persisted)>> \o
                        (IF link /\ fail = NoFail
                         THEN <<PersistThenPublish(obj2, list2, Deref(obj1, list1))>>
                         ELSE <<>>),
                            !.event = original,
                            !.active = tick.active, !.current = tick.current]
       /\ Delivered(last'.payloads)
       /\ UNCHANGED <<pending, now, linkEnabled, sw, ovr, started>>

\* a create that takes any pair of well-formed endpoints, in any order
CreateEventAnyRange(m, event, fail) ==
    LET summary == ExtractSummary(event)
        start == CoerceEndpoint(event.start)
        end == CoerceEndpoint(event.end)
    IN IF start = NoneVal \/ end = NoneVal
       THEN Rejected("create", "", EmptyUid, "invalid")
       ELSE AddEventInternal(m, start, end, summary, event, fail)

\* async_create_event(**event)
CreateEvent(m, event, fail) ==
    LET summary == ExtractSummary(event)
        start == CoerceEndpoint(event.start)
        end == CoerceEndpoint(event.end)
        st == ParseDatetime(start)
        en == ParseDatetime(end)
    IN IF start = NoneVal \/ end = NoneVal
       THEN Rejected("create", "", EmptyUid, "invalid")
       ELSE IF st = NoneVal \/ en = NoneVal \/ en <= st
            THEN Rejected("create", "", EmptyUid, "invalid")
            ELSE AddEventInternal(m, start, end, summary, event, fail)

\* an update that rewrites the summary whether or not the payload has one
ApplyUpdateResetsSummary(e, event) ==
    [e EXCEPT !.summary = ExtractSummary(event),
              !.description = IF event.description \in {NoKey, NoneStr} THEN @
                              ELSE event.description,
              !.start = IF event.start = Absent THEN @ ELSE CoerceEndpoint(event.start),
              !.end = IF event.end = Absent THEN @ ELSE CoerceEndpoint(event.end),
              !.linked = IF event.linked_from_bris THEN TRUE ELSE @,
              !.bris_uid = IF event.bris_event_uid # EmptyUid
                           THEN event.bris_event_uid ELSE @]

\* the part of async_update_event that rewrites the dict: the summary if its
\* key is there, the description if it is there and not None, the endpoints
\* if their keys are there, and extra.update() with every other key whose
\* value is not None
ApplyUpdate(e, event) ==
    [e EXCEPT !.summary = IF event.summary = NoKey THEN @ ELSE ExtractSummary(event),
              !.description = IF event.description \in {NoKey, NoneStr} THEN @
                              ELSE event.description,
              !.start = IF event.start = Absent THEN @ ELSE CoerceEndpoint(event.start),
              !.end = IF event.end = Absent THEN @ ELSE CoerceEndpoint(event.end),
              !.linked = IF event.linked_from_bris THEN TRUE ELSE @,
              !.bris_uid = IF event.bris_event_uid # EmptyUid
                           THEN event.bris_event_uid ELSE @]

\* a propagation of an update that mirrors the window but not the summary
SyncUpdateKeepsSummary(o, list, new_bris) ==
    LET j == FindLinked(Deref(o, list), new_bris.uid, 1) IN
    IF j = 0 THEN o
    ELSE [o EXCEPT ![list[j]].start = new_bris.start,
                   ![list[j]].end = new_bris.end]

\* _sync_bris_to_no_tachnun_update: the dicts after mirroring new_bris
SyncUpdate(o, list, new_bris) ==
    LET j == FindLinked(Deref(o, list), new_bris.uid, 1) IN
    IF j = 0 THEN o
    ELSE [o EXCEPT ![list[j]].start = new_bris.start,
                   ![list[j]].end = new_bris.end,
                   ![list[j]].summary = LinkSummary(new_bris.summary)]

\* async_update_event(uid, event).  A failing write of its own raises into
\* its `except`: the dict stays rewritten, nothing is saved, ticked or sent;
\* a failing write of the link propagation leaves the linked dict rewritten,
\* unsaved and unsent.
UpdateEvent(m, uid, event, fail) ==
    LET evs == Deref(obj, events_all[m])
        i == FindEvent(evs, uid, m, 1)
    IN IF uid = EmptyUid THEN Rejected("update", "", EmptyUid, "invalid")
       ELSE IF event = NoPayload
            THEN Rejected("update", "", EmptyUid, "invalid")
       ELSE IF i = 0 THEN Rejected("update", m, uid, "not_found")
       ELSE IF LinkPolicyBlocks(m, evs[i])
            THEN Rejected("update", m, uid, "policy")
       ELSE
         LET e == ApplyUpdate(evs[i], event)
             obj1 == [obj EXCEPT ![uid] = e]
             tick == Tick(m, Deref(obj1, events_all[m]), now, sw, linked_nt_on)
             link == m = LinkSource /\ linkEnabled
             obj2 == IF link THEN SyncUpdate(obj1, events_all[m], e) ELSE obj1
             synced == link /\ FindLinked(Deref(obj1, events_all[m]), uid, 1) # 0
         IN IF fail = OwnWrite
            THEN /\ obj' = obj1
                 /\ last' = [Report("update", m, uid, Absent, "write_failed", <<>>, 0)
                               EXCEPT !.event = event]
                 /\ UNCHANGED <<ents, old, pending, now, linkEnabled, sw, ovr, events_all, persisted,
                                nextUid, linked_nt_on, queue, started>>
            ELSE
            /\ fail = LinkWrite => synced
            /\ Len(tick.cmds) <= MaxQueue
            /\ obj' = obj2
            /\ persisted' = IF fail = LinkWrite THEN Deref(obj1, events_all[m])
                            ELSE Deref(obj2, events_all[m])
            /\ queue' = queue \o tick.cmds
            /\ linked_nt_on' = tick.linked_nt_on
            /\ last' = [Report("update", m, uid, Absent,
                               IF fail = LinkWrite THEN "link_write_failed" ELSE "ok",
                               tick.cmds, IF synced /\ fail = NoFail THEN 2 ELSE 1)
                          EXCEPT !.payloads =
                             <<PersistThenPublish(obj1, events_all[m], persisted)>> \o
                             (IF synced /\ fail = NoFail
                              THEN <<PersistThenPublish(obj2, events_all[m],
                                                        Deref(obj1, events_all[m]))>>
                              ELSE <<>>),
                                 !.event = event,
                                 !.active = tick.active, !.current = tick.current]
            /\ Delivered(last'.payloads)
            /\ UNCHANGED <<pending, now, linkEnabled, sw, ovr, events_all, nextUid, started>>

\* async_delete_event(uid), with _sync_bris_to_no_tachnun_delete at its end.
\* A failing write of its own raises into its `except`: the list stays
\* without the event, nothing is saved, ticked or sent; a failing write of
\* the link propagation leaves the linked dict removed, unsaved and unsent.
DeleteEvent(m, uid, fail) ==
    LET evs == Deref(obj, events_all[m])
        i == FindEvent(evs, uid, m, 1)
    IN IF uid = EmptyUid THEN Rejected("delete", "", EmptyUid, "invalid")
       ELSE IF i = 0 THEN Rejected("delete", m, uid, "not_found")
       ELSE IF LinkPolicyBlocks(m, evs[i])
            THEN Rejected("delete", m, uid, "policy")
       ELSE
         LET list1 == RemoveEvent(events_all[m], obj, uid, m)
             tick == Tick(m, Deref(obj, list1), now, sw, linked_nt_on)
             link == m = LinkSource /\ linkEnabled
             list2 == IF link THEN RemoveLinked(list1, obj, uid) ELSE list1
             lists == [events_all EXCEPT ![m] = list2]
             synced == Len(list2) < Len(list1)
         IN IF fail = OwnWrite
            THEN /\ events_all' = [events_all EXCEPT ![m] = list1]
                 /\ obj' = Collect(obj, [events_all EXCEPT ![m] = list1])
                 /\ last' = Report("delete", m, uid, Absent, "write_failed", <<>>, 0)
                 /\ UNCHANGED <<ents, old, pending, now, linkEnabled, sw, ovr, persisted, nextUid,
                                linked_nt_on, queue, started>>
            ELSE
            /\ fail = LinkWrite => synced
            /\ Len(tick.cmds) <= MaxQueue
            /\ events_all' = lists
            /\ persisted' = IF fail = LinkWrite THEN Deref(obj, list1)
                            ELSE Deref(obj, list2)
            /\ obj' = Collect(obj, lists)
            /\ queue' = queue \o tick.cmds
            /\ linked_nt_on' = tick.linked_nt_on
            /\ last' = [Report("delete", m, uid, Absent,
                               IF fail = LinkWrite THEN "link_write_failed" ELSE "ok",
                               tick.cmds, IF synced /\ fail = NoFail THEN 2 ELSE 1)
                          EXCEPT !.payloads =
                             <<PersistThenPublish(obj, list1, persisted)>> \o
                             (IF synced /\ fail = NoFail
                              THEN <<PersistThenPublish(obj, list2, Deref(obj, list1))>>
                              ELSE <<>>),
                                 !.active = tick.active, !.current = tick.current]
            /\ Delivered(last'.payloads)
            /\ UNCHANGED <<pending, now, linkEnabled, sw, ovr, nextUid, started>>

\* ---------------------------------------------- handlers, step by step
\* A handler changes its list (or a dict of it) and then waits in
\* `await self._persist()`; nothing keeps another command from running while
\* it waits.  The handler up to that await is one step (Begin...), the rest
\* of it, from the completed write on, is another (Resume).

\* the handler that waits: its operation, calendar and uid, the dict it holds
\* (the one it created, rewrote or copied before deleting) and the list of
\* its calendar as it was when it started to wait
Suspended(op, m, uid, ev, snapshot) ==
    [op |-> op, mode |-> m, uid |-> uid, ev |-> ev, snapshot |-> snapshot]

\* a handler has reached `await self._persist()`
Suspend(op, m, uid, ev, snapshot) ==
    /\ pending' = Append(pending, Suspended(op, m, uid, ev, snapshot))
    /\ last' = Report(op, m, uid, Absent, "suspended", <<>>, 0)

\* async_create_event up to the await in _add_event_internal
BeginCreate(m, event) ==
    LET summary == ExtractSummary(event)
        start == CoerceEndpoint(event.start)
        end == CoerceEndpoint(event.end)
        st == ParseDatetime(start)
        en == ParseDatetime(end)
        ev == NewEvent(nextUid, m, start, end, summary, event)
        list1 == Append(events_all[m], ev.uid)
        obj1 == [obj EXCEPT ![ev.uid] = ev]
    IN IF start = NoneVal \/ end = NoneVal \/ st = NoneVal \/ en = NoneVal \/ en <= st
       THEN Rejected("create", "", EmptyUid, "invalid")
       ELSE /\ nextUid <= MaxEvents
            /\ events_all' = [events_all EXCEPT ![m] = list1]
            /\ obj' = obj1
            /\ nextUid' = nextUid + 1
            /\ Suspend("create", m, ev.uid, ev, Deref(obj1, list1))
            /\ UNCHANGED <<ents, old, now, linkEnabled, sw, ovr, persisted, linked_nt_on,
                           queue, started>>

\* async_update_event up to its await
BeginUpdate(m, uid, event) ==
    LET evs == Deref(obj, events_all[m])
        i == FindEvent(evs, uid, m, 1)
    IN IF uid = EmptyUid \/ event = NoPayload
       THEN Rejected("update", "", EmptyUid, "invalid")
       ELSE IF i = 0 THEN Rejected("update", m, uid, "not_found")
       ELSE IF LinkPolicyBlocks(m, evs[i])
            THEN Rejected("update", m, uid, "policy")
       ELSE LET e == ApplyUpdate(evs[i], event)
                obj1 == [obj EXCEPT ![uid] = e]
            IN /\ obj' = obj1
               /\ Suspend("update", m, uid, e, Deref(obj1, events_all[m]))
               /\ UNCHANGED <<ents, old, now, linkEnabled, sw, ovr, events_all, persisted,
                              nextUid, linked_nt_on, queue, started>>

\* async_delete_event up to its await
BeginDelete(m, uid) ==
    LET evs == Deref(obj, events_all[m])
        i == FindEvent(evs, uid, m, 1)
    IN IF uid = EmptyUid THEN Rejected("delete", "", EmptyUid, "invalid")
       ELSE IF i = 0 THEN Rejected("delete", m, uid, "not_found")
       ELSE IF LinkPolicyBlocks(m, evs[i])
            THEN Rejected("delete", m, uid, "policy")
       ELSE LET list1 == RemoveEvent(events_all[m], obj, uid, m)
                lists == [events_all EXCEPT ![m] = list1]
            IN /\ events_all' = lists
               /\ obj' = Collect(obj, lists)
               /\ Suspend("delete", m, uid, evs[i], Deref(obj, list1))
               /\ UNCHANGED <<ents, old, now, linkEnabled, sw, ovr, persisted, nextUid,
                              linked_nt_on, queue, started>>

\* The write of the handler that has waited longest completes and the handler
\* runs to its end: _tick, the notification with list(self._events_all) as
\* the list is by now, and the link propagation.  The Store serialises the
\* list the handler passed by reference, as it was when the handler started
\* to wait or as it is by now.
Resume ==
    /\ pending # <<>>
    /\ LET h == Head(pending)
           m == h.mode
           cur == events_all[m]
           held == IF obj[h.uid] # NoObj /\ obj[h.uid].mode_key = m
                   THEN obj[h.uid] ELSE h.ev
           tick == Tick(m, Deref(obj, cur), now, sw, linked_nt_on)
           link == m = LinkSource /\ linkEnabled
           nt_event == LinkedEvent(nextUid, held)
           list2 == IF ~link THEN cur
                    ELSE IF h.op = "create" THEN Append(cur, nt_event.uid)
                    ELSE IF h.op = "delete" THEN RemoveLinked(cur, obj, h.uid)
                    ELSE cur
           obj2 == IF ~link THEN obj
                   ELSE IF h.op = "create" THEN [obj EXCEPT ![nt_event.uid] = nt_event]
                   ELSE IF h.op = "update" THEN SyncUpdate(obj, cur, held)
                   ELSE obj
           lists == [events_all EXCEPT ![m] = list2]
           synced == /\ link
                     /\ \/ h.op = "create"
                        \/ h.op = "update" /\ FindLinked(Deref(obj, cur), h.uid, 1) # 0
                        \/ h.op = "delete" /\ Len(list2) < Len(cur)
       IN /\ link /\ h.op = "create" => nextUid <= MaxEvents
          /\ Len(queue) + Len(tick.cmds) <= MaxQueue
          /\ \E written \in {h.snapshot, Deref(obj, cur)} :
                /\ persisted' = IF synced THEN Deref(obj2, list2) ELSE written
                /\ last' = [Report(h.op, m, h.uid, Absent, "resumed", tick.cmds,
                                   IF synced THEN 2 ELSE 1)
                              EXCEPT !.payloads =
                                 <<[payload |-> Deref(obj, cur), saved |-> written]>> \o
                                 (IF synced
                                  THEN <<PersistThenPublish(obj2, list2, written)>>
                                  ELSE <<>>),
                                     !.active = tick.active,
                                     !.current = tick.current]
          /\ events_all' = lists
          /\ obj' = Collect(obj2, lists)
          /\ nextUid' = nextUid + (IF link /\ h.op = "create" THEN 1 ELSE 0)
          /\ queue' = queue \o tick.cmds
          /\ linked_nt_on' = tick.linked_nt_on
    /\ pending' = Tail(pending)
    /\ Delivered(last'.payloads)
    /\ UNCHANGED <<now, linkEnabled, sw, ovr, started>>

\* CalendarEvent(start=st, end=en, summary=..., uid=..., description=...)
CalendarEvent(e, name) ==
    [start |-> ParseDatetime(e.start), end |-> ParseDatetime(e.end),
     summary |-> IF e.summary = "" THEN name ELSE e.summary,
     uid |-> e.uid,
     description |-> IF e.description = NoKey THEN NoneStr ELSE e.description]

\* the events of mode m whose window strictly overlaps the queried one
GetEventsStrict(evs, m, start_date, end_date) ==
    LET hit(e) == /\ ParseDatetime(e.start) # NoneVal
                  /\ ParseDatetime(e.end) # NoneVal
                  /\ ParseDatetime(e.start) < end_date
                  /\ ParseDatetime(e.end) > start_date
        hits == SelectSeq(MyEvents(evs, m), hit)
    IN [i \in 1..Len(hits) |-> CalendarEvent(hits[i], m)]

\* async_get_events: for every dict of _my_events() with parseable endpoints,
\* `if st <= end_date and en >= start_date`
GetEvents(evs, m, start_date, end_date) ==
    LET hit(e) == /\ ParseDatetime(e.start) # NoneVal
                  /\ ParseDatetime(e.end) # NoneVal
                  /\ ParseDatetime(e.start) <= end_date
                  /\ ParseDatetime(e.end) >= start_date
        hits == SelectSeq(MyEvents(evs, m), hit)
    IN [i \in 1..Len(hits) |-> CalendarEvent(hits[i], m)]

\* async_get_events(hass, start_date, end_date) on the calendar of mode m
QueryEvents(m, start_date, end_date) ==
    /\ last' = [Report("query", m, EmptyUid, Absent, "ok", <<>>, 0)
                  EXCEPT !.window = <<start_date, end_date>>,
                         !.returned = GetEvents(Deref(obj, events_all[m]), m,
                                                start_date, end_date)]
    /\ UNCHANGED <<ents, old, pending, now, linkEnabled, sw, ovr, events_all, obj, persisted,
                   nextUid, linked_nt_on, queue, started>>

\* the periodic _tick of mode m (async_track_time_interval, 30 s)
PeriodicTick(m) ==
    LET tick == Tick(m, Deref(obj, events_all[m]), now, sw, linked_nt_on) IN
    /\ Len(queue) + Len(tick.cmds) <= MaxQueue
    /\ queue' = queue \o tick.cmds
    /\ linked_nt_on' = tick.linked_nt_on
    /\ last' = [Report("tick", m, EmptyUid, Absent, "ok", tick.cmds, 0)
                  EXCEPT !.active = tick.active, !.current = tick.current]
    /\ UNCHANGED <<ents, old, pending, now, linkEnabled, sw, ovr, events_all, obj, persisted,
                   nextUid, started>>

\* ------------------------------------------------------ switch operations
\* a turn_on(minutes?) command from outside (minutes = Absent: key missing)
TurnOn(m, minutes) ==
    /\ sw' = [sw EXCEPT ![m] = OnSrc(@, SwitchTurnOn(@, now, NoKwarg, minutes), "command")]
    /\ last' = [Report("turn_on", m, EmptyUid, minutes, "ok", <<>>, 0)
                  EXCEPT !.armed_before = NumPending(sw[m])]
    /\ UNCHANGED <<ents, old, pending, now, linkEnabled, ovr, events_all, obj, persisted, nextUid,
                   linked_nt_on, queue, started>>

\* a turn_off() command from outside
TurnOff(m) ==
    /\ sw' = [sw EXCEPT ![m] = OnSrc(@, SwitchTurnOff(@, NoKwarg), "command")]
    /\ last' = [Report("turn_off", m, EmptyUid, Absent, "ok", <<>>, 0)
                  EXCEPT !.armed_before = NumPending(sw[m])]
    /\ UNCHANGED <<ents, old, pending, now, linkEnabled, ovr, events_all, obj, persisted, nextUid,
                   linked_nt_on, queue, started>>

\* CalendarOverrideSwitch.async_turn_on / async_turn_off
SetOverride(m, b) ==
    /\ ovr[m] # b
    /\ ovr' = [ovr EXCEPT ![m] = b]
    /\ last' = Report("set_override", m, EmptyUid, Absent, "ok", <<>>, 0)
    /\ UNCHANGED <<ents, old, pending, now, linkEnabled, sw, events_all, obj, persisted, nextUid,
                   linked_nt_on, queue, started>>

\* the timer of mode m is pending and due
TimerDue(m) == \E d \in PendingTimers(sw[m]) : now * SecondsPerMinute >= d

\* a timer of a removed ModeSwitch object of mode m is pending and due
StaleDue(m) == \E d \in sw[m].stale : now * SecondsPerMinute >= d

\* the switch once its timer due at d has fired
FiredTimer(s, d) ==
    IF s.timer = d THEN [s EXCEPT !.timer = NoneVal]
    ELSE [s EXCEPT !.orphans = @ \ {d}]

\* _start_timer._cb: the one-shot timer fires and creates the turn-off task;
\* the handle _unsub_timer stays set
TimerFire(m) ==
    /\ Len(queue) < MaxQueue
    /\ \E d \in PendingTimers(sw[m]) :
          /\ now * SecondsPerMinute >= d
          /\ sw' = [sw EXCEPT ![m] = FiredTimer(@, d)]
    /\ queue' = Append(queue, [target |-> m, op |-> "turn_off", by |-> "timer",
                               src |-> "timer"])
    /\ last' = Report("timer_fire", m, EmptyUid, Absent, "ok", <<>>, 0)
    /\ UNCHANGED <<ents, old, pending, now, linkEnabled, ovr, events_all, obj, persisted, nextUid,
                   linked_nt_on, started>>

\* the event loop runs the oldest waiting task: a service call reaches the
\* entity without kwargs, a timer task calls async_turn_off(controlled_by=...)
RunTask ==
    /\ queue # <<>>
    /\ LET c == Head(queue) IN
       /\ sw' = [sw EXCEPT ![c.target] =
                    OnSrc(@, IF c.op = "turn_on" THEN SwitchTurnOn(@, now, c.by, Absent)
                             ELSE SwitchTurnOff(@, c.by), c.src)]
       /\ last' = [Report("task", c.target, EmptyUid, Absent, c.op, <<c>>, 0)
                     EXCEPT !.armed_before = NumPending(sw[c.target])]
    /\ queue' = Tail(queue)
    /\ UNCHANGED <<ents, old, pending, now, linkEnabled, ovr, events_all, obj, persisted, nextUid,
                   linked_nt_on, started>>

\* a minute passes: waiting tasks have run and due timers have fired before
AdvanceTime ==
    /\ now < MaxTime
    /\ queue = <<>>
    /\ \A m \in Modes : ~TimerDue(m) /\ ~StaleDue(m)
    /\ now' = now + 1
    /\ last' = Report("advance", "", EmptyUid, Absent, "ok", <<>>, 0)
    /\ UNCHANGED <<ents, old, pending, linkEnabled, sw, ovr, events_all, obj, persisted, nextUid,
                   linked_nt_on, queue, started>>

\* _Mgr._tick (every minute): the sensors of finished events are recorded in
\* Old Events and popped
MgrTick ==
    LET finished == {u \in Live(ents) : HasFinished(ents[u], now)} IN
    /\ ents' = [u \in UIDs |-> IF u \in finished THEN NoObj ELSE ents[u]]
    /\ old' = old \cup finished
    /\ last' = Report("mgr_tick", "", EmptyUid, Absent, "ok", <<>>, 0)
    /\ UNCHANGED <<now, linkEnabled, sw, ovr, events_all, obj, persisted,
                   nextUid, linked_nt_on, queue, started, pending>>

\* a notification sent for the entry `entry_id` by some calendar
Notification(entry_id, events) ==
    LET st == OnEvents([ents |-> ents, old |-> old], entry_id, events) IN
    /\ ents' = st.ents
    /\ old' = st.old
    /\ last' = [Report("notification", entry_id, EmptyUid, Absent, "ok", <<>>, 0)
                  EXCEPT !.payloads = <<[payload |-> events, saved |-> persisted]>>]
    /\ UNCHANGED <<now, linkEnabled, sw, ovr, events_all, obj, persisted,
                   nextUid, linked_nt_on, queue, started, pending>>

\* a day passes in which nothing else happens
AdvanceDay ==
    /\ now <= MaxTime
    /\ queue = <<>>
    /\ \A m \in Modes : ~TimerDue(m) /\ ~StaleDue(m)
    /\ now' = now + MinutesPerDay
    /\ last' = Report("advance", "", EmptyUid, MinutesPerDay, "ok", <<>>, 0)
    /\ UNCHANGED <<linkEnabled, sw, ovr, events_all, obj, persisted, nextUid,
                   linked_nt_on, queue, started, pending, ents, old>>

\* the new entity of a restarted process, before it reads its last state
FreshSwitch(s) ==
    [s EXCEPT !.timer = NoneVal, !.unsub = FALSE, !.restored_on = FALSE,
              !.orphans = {}, !.restored_expire_at = NoneVal, !.stale = {}]

\* a restore that keeps an ON record ON without arming its timer
RestoreSwitchNoRearm(s, t, late) ==
    LET fresh == FreshSwitch(s)
        off == [fresh EXCEPT !.is_on = FALSE, !.expire_at = NoneVal]
    IN IF ~s.is_on THEN fresh
       ELSE IF s.expire_at = NoneVal THEN [fresh EXCEPT !.restored_on = TRUE]
       ELSE IF s.expire_at * SecondsPerMinute > t * SecondsPerMinute + late
            THEN [fresh EXCEPT !.restored_on = TRUE,
                               !.restored_expire_at = s.expire_at]
            ELSE off

\* a restore that keeps an ON record ON whatever its expire_at
RestoreSwitchKeepsExpired(s, t, late) ==
    LET fresh == FreshSwitch(s) IN
    IF ~s.is_on THEN fresh
    ELSE [fresh EXCEPT !.restored_on = TRUE, !.restored_expire_at = s.expire_at]

\* a restore that keeps an ON record ON up to and including the instant of
\* its expire_at
RestoreSwitchAtExpiry(s, t, late) ==
    LET fresh == FreshSwitch(s)
        nowSec == t * SecondsPerMinute + late
        remaining == s.expire_at * SecondsPerMinute - nowSec
        off == [fresh EXCEPT !.is_on = FALSE, !.expire_at = NoneVal]
    IN IF ~s.is_on THEN fresh
       ELSE IF s.expire_at = NoneVal THEN [fresh EXCEPT !.restored_on = TRUE]
       ELSE IF s.expire_at * SecondsPerMinute >= nowSec
            THEN [StartTimer(fresh, nowSec, remaining)
                     EXCEPT !.restored_on = TRUE,
                            !.restored_expire_at = s.expire_at]
            ELSE off

\* the mode switches in the order async_setup_entry builds them
ModeOrder == <<"bris", "no_tachnun">>

\* a daily reset that turns every mode switch off, ON or not
ResetTasksForAll(sws) ==
    [i \in 1..Len(ModeOrder) |->
        [target |-> ModeOrder[i], op |-> "turn_off", by |-> "auto_reset",
         src |-> "auto_reset"]]

\* _daily_reset: one async_turn_off(controlled_by="auto_reset") task per mode
\* switch that is on
ResetTasks(sws) ==
    LET on == SelectSeq(ModeOrder, LAMBDA m : sws[m].is_on) IN
    [i \in 1..Len(on) |->
        [target |-> on[i], op |-> "turn_off", by |-> "auto_reset",
         src |-> "auto_reset"]]

\* the clock reaches the configured HH:MM:00 and async_track_time_change
\* calls _daily_reset
DailyReset ==
    LET tasks == ResetTasks(sw) IN
    /\ now < MaxTime
    /\ queue = <<>>
    /\ \A m \in Modes : ~TimerDue(m) /\ ~StaleDue(m)
    /\ Len(tasks) <= MaxQueue
    /\ now' = now + 1
    /\ queue' = tasks
    /\ last' = Report("auto_reset", "", EmptyUid, Absent, "ok", tasks, 0)
    /\ UNCHANGED <<ents, old, pending, linkEnabled, sw, ovr, events_all, obj, persisted, nextUid,
                   linked_nt_on, started>>

\* ModeSwitch.async_added_to_hass up to async_write_ha_state, for the last
\* state s written before the restart, read when the clock shows minute t
\* and `late` seconds
RestoreSwitch(s, t, late) ==
    LET fresh == FreshSwitch(s)
        nowSec == t * SecondsPerMinute + late
        remaining == s.expire_at * SecondsPerMinute - nowSec
        off == [fresh EXCEPT !.is_on = FALSE, !.expire_at = NoneVal]
    IN IF ~s.is_on THEN fresh
       ELSE IF s.expire_at = NoneVal THEN [fresh EXCEPT !.restored_on = TRUE]
       ELSE IF s.expire_at * SecondsPerMinute > nowSec
            THEN IF remaining > RestoreMinRemaining
                 THEN [StartTimer(fresh, nowSec, remaining)
                          EXCEPT !.restored_on = TRUE,
                                 !.restored_expire_at = s.expire_at]
                 ELSE off
            ELSE off

\* async_added_to_hass when async_get_last_state() has nothing
NoLastState(s) ==
    [FreshSwitch(s) EXCEPT !.is_on = FALSE, !.expire_at = NoneVal,
                           !.controlled_by = "manual"]

\* what the restore finds in the last state of a switch
RecordKind(s, t, late, has_record) ==
    IF ~has_record THEN "none"
    ELSE IF ~s.is_on THEN "off"
    ELSE IF s.expire_at = NoneVal THEN "on_indefinite"
    ELSE IF s.expire_at * SecondsPerMinute > t * SecondsPerMinute + late
         THEN "on_timed" ELSE "on_expired"

\* a reassert that takes the switch's ON state for granted
ReassertAlways(s, t) ==
    [s EXCEPT !.controlled_by = "restore", !.expire_at = NoneVal, !.is_on = TRUE]

\* _reassert_on_started (registered only when the restore set _restored_on)
Reassert(s, t) ==
    LET remaining == (s.expire_at - t) * SecondsPerMinute IN
    IF ~s.restored_on \/ s.is_on THEN s
    ELSE IF s.expire_at # NoneVal /\ remaining > RestoreMinRemaining
         THEN StartTimer([s EXCEPT !.controlled_by = "restore", !.is_on = TRUE],
                         t * SecondsPerMinute, remaining)
         ELSE [s EXCEPT !.controlled_by = "restore", !.expire_at = NoneVal,
                        !.is_on = TRUE]

\* the process stops and, d minutes later (and `late` seconds into that
\* minute), is set up again: switches restore their last written state (or
\* find none), every calendar copies the persisted collection and runs its
\* first tick
Restart(d, late, has_record) ==
    LET t == now + d
        sws == [m \in Modes |->
                  OnSrc(sw[m], IF has_record THEN RestoreSwitch(sw[m], t, late)
                               ELSE NoLastState(sw[m]), "restore")]
        loaded == [i \in 1..Len(persisted) |-> persisted[i].uid]
        o == [u \in UIDs |->
                IF \E i \in 1..Len(persisted) : persisted[i].uid = u
                THEN persisted[CHOOSE i \in 1..Len(persisted) : persisted[i].uid = u]
                ELSE NoObj]
        tick1 == Tick(LinkSource, persisted, t, sws, FALSE)
        tick2 == Tick(LinkTarget, persisted, t, sws, tick1.linked_nt_on)
    IN /\ t <= MaxTime
       /\ Len(tick1.cmds) + Len(tick2.cmds) <= MaxQueue
       /\ now' = t
       /\ sw' = sws
       /\ events_all' = [m \in Modes |-> loaded]
       /\ obj' = o
       /\ queue' = tick1.cmds \o tick2.cmds
       /\ linked_nt_on' = tick2.linked_nt_on
       /\ started' = FALSE
       /\ pending' = <<>>
       /\ last' = [Report("restart", "", EmptyUid, late, "ok", tick1.cmds \o tick2.cmds, 0)
                     EXCEPT !.found = [m \in Modes |-> RecordKind(sw[m], t, late, has_record)]]
       /\ Setup(persisted)
       /\ UNCHANGED <<linkEnabled, ovr, persisted, nextUid>>

\* EVENT_HOMEASSISTANT_STARTED: the listen_once callbacks of the switches run
HostStarted ==
    /\ ~started
    /\ queue = <<>>
    /\ started' = TRUE
    /\ sw' = [m \in Modes |-> OnSrc(sw[m], Reassert(sw[m], now), "restore")]
    /\ last' = [Report("started", "", EmptyUid, Absent, "ok", <<>>, 0)
                  EXCEPT !.found = [m \in Modes |->
                      IF ~sw[m].restored_on THEN "not_restored"
                      ELSE IF sw[m].is_on THEN "on" ELSE "off"]]
    /\ UNCHANGED <<ents, old, pending, now, linkEnabled, ovr, events_all, obj, persisted, nextUid,
                   linked_nt_on, queue>>

\* a timer armed by a ModeSwitch object that a reload removed fires: nothing
\* cancelled it (ModeSwitch has no async_will_remove_from_hass); its callback
\* runs async_turn_off on the removed object, whose state write the host drops
StaleTimerFire(m) ==
    /\ \E d \in sw[m].stale :
          /\ now * SecondsPerMinute >= d
          /\ sw' = [sw EXCEPT ![m].stale = @ \ {d}]
    /\ last' = Report("timer_fire", m, EmptyUid, Absent, "removed", <<>>, 0)
    /\ UNCHANGED <<ents, old, pending, now, linkEnabled, ovr, events_all, obj, persisted, nextUid,
                   linked_nt_on, queue, started>>

\* the new ModeSwitch of a reloaded entry: it restores the last written state;
\* the timers of the object it replaces stay pending
ReloadSwitch(s, t) ==
    [RestoreSwitch(s, t, 0) EXCEPT !.stale = s.stale \cup PendingTimers(s)]

\* the options are saved with the link option set to `link` and
\* _options_updated reloads the entry: the platforms are unloaded (every
\* calendar detaches its tick in async_will_remove_from_hass, the switches
\* have no such hook) and set up again in the running host.  A reload
\* while a handler of a calendar is suspended is left out.
ReloadEntry(link) ==
    LET sws == [m \in Modes |-> OnSrc(sw[m], ReloadSwitch(sw[m], now), "restore")]
        loaded == [i \in 1..Len(persisted) |-> persisted[i].uid]
        o == [u \in UIDs |->
                IF \E i \in 1..Len(persisted) : persisted[i].uid = u
                THEN persisted[CHOOSE i \in 1..Len(persisted) : persisted[i].uid = u]
                ELSE NoObj]
        tick1 == TickOpt(link, LinkSource, persisted, now, sws, FALSE)
        tick2 == TickOpt(link, LinkTarget, persisted, now, sws, tick1.linked_nt_on)
    IN /\ Len(tick1.cmds) + Len(tick2.cmds) <= MaxQueue
       /\ pending = <<>>
       /\ linkEnabled' = link
       /\ sw' = sws
       /\ events_all' = [m \in Modes |-> loaded]
       /\ obj' = o
       /\ queue' = tick1.cmds \o tick2.cmds
       /\ linked_nt_on' = tick2.linked_nt_on
       /\ last' = Report("reload", "", EmptyUid, Absent, "ok", tick1.cmds \o tick2.cmds, 0)
       /\ Setup(persisted)
       /\ UNCHANGED <<pending, now, ovr, persisted, nextUid, started>>

\* ------------------------------------------------------------------- Next
PayloadEndpoints == Instants \cup {NoneVal}
UpdateEndpoints == Instants \cup {NoneVal, Absent}
MinutesArgs == (0..MaxMinutes) \cup {Absent}
KnownUids == 0..(nextUid - 1)      \* the empty uid and every uid handed out

\* Commands to the event store and to the overrides, and restarts, come from
\* people: they arrive when the event loop is idle, the tasks created by the
\* step before have run.  Ticks, timers and switch commands may find tasks
\* waiting.
Idle == queue = <<>>

Create == \E m \in Modes, s \in PayloadEndpoints, e \in PayloadEndpoints :
              Idle /\ CreateEvent(m, Payload(s, e), NoFail)
Update == \E m \in Modes, u \in KnownUids, s \in UpdateEndpoints,
             e \in UpdateEndpoints : Idle /\ UpdateEvent(m, u, Payload(s, e), NoFail)
Delete == \E m \in Modes, u \in KnownUids : Idle /\ DeleteEvent(m, u, NoFail)
Ticks == \E m \in Modes : PeriodicTick(m)
SwitchCommands == \E m \in Modes :
                     \/ \E mn \in MinutesArgs : TurnOn(m, mn)
                     \/ TurnOff(m)
Overrides == \E m \in Modes, b \in BOOLEAN : Idle /\ SetOverride(m, b)
Timers == \E m \in Modes : TimerFire(m)
Queries == \E m \in Modes, ws \in Instants, we \in Instants :
               ws <= we /\ QueryEvents(m, ws, we)
StaleTimers == \E m \in Modes : StaleTimerFire(m)
Reloads == \E link \in BOOLEAN : Idle /\ ReloadEntry(link)
BeginCommands == \E m \in Modes :
    \/ \E s \in PayloadEndpoints, e \in PayloadEndpoints : BeginCreate(m, Payload(s, e))
    \/ \E u \in KnownUids, s \in UpdateEndpoints, e \in UpdateEndpoints :
          BeginUpdate(m, u, Payload(s, e))
    \/ \E u \in KnownUids : BeginDelete(m, u)
Notifications == \E entry_id \in {ThisEntry, OtherEntry}, m \in Modes :
                     Notification(entry_id, Deref(obj, events_all[m]))
RestartOffsets == {0, SecondsPerMinute \div 2, SecondsPerMinute - 1}
Restarts == \E d \in 0..1, late \in RestartOffsets, has_record \in BOOLEAN :
                Idle /\ Restart(d, late, has_record)

Next ==
    \/ Create
    \/ Update
    \/ Delete
    \/ Ticks
    \/ SwitchCommands
    \/ Overrides
    \/ Timers
    \/ RunTask
    \/ AdvanceTime
    \/ Restarts
    \/ HostStarted
    \/ DailyReset
    \/ StaleTimers
    \/ Reloads
    \/ Queries
    \/ BeginCommands
    \/ Resume
    \/ MgrTick
    \/ Notifications
    \/ AdvanceDay

Spec == Init /\ [][Next]_vars

\* ------------------------------------------------- the specifications used
\* Each group of properties is stated for the part of the system it is
\* about, under the commands that part receives.

\* default_durations as const.py ships them
InitDefault == Init /\ \A m \in Modes : sw[m].default_minutes = 0

\* (1) the switch alone: commands, timers, restarts; no calendar events
NextSwitch ==
    \/ SwitchCommands
    \/ Timers
    \/ RunTask
    \/ AdvanceTime
    \/ Restarts
    \/ HostStarted
SpecSwitch == Init /\ [][NextSwitch]_vars

\* (1b) the switch with a daily auto-reset time configured
NextReset ==
    \/ SwitchCommands
    \/ Timers
    \/ RunTask
    \/ AdvanceTime
    \/ DailyReset
SpecReset == Init /\ [][NextReset]_vars

\* (2) the reconciliation tick: well-formed events come and go, time passes,
\*     overrides are flipped; every default_minutes, link on and off
MaxTickEvents == 2
CreateValid == \E m \in Modes, s \in Instants, e \in Instants :
                   Idle /\ s < e /\ nextUid <= MaxTickEvents
                   /\ CreateEvent(m, Payload(s, e), NoFail)
DeleteStored == \E m \in Modes, u \in UIDs :
                    /\ Idle
                    /\ FindEvent(Deref(obj, events_all[m]), u, m, 1) # 0
                    /\ DeleteEvent(m, u, NoFail)
NextTick ==
    \/ CreateValid
    \/ DeleteStored
    \/ Ticks
    \/ Overrides
    \/ Timers
    \/ RunTask
    \/ AdvanceTime
SpecTick == Init /\ [][NextTick]_vars

\* (3) the event store: every kind of payload, restarts, the clock standing
\*     still
MaxStoreEvents == 2
CreatePayloads == {<<0, MaxTime>>, <<MaxTime, 0>>, <<0, 0>>,
                   <<NoneVal, MaxTime>>, <<0, NoneVal>>}
UpdatePayloads == {<<Absent, 0>>, <<NoneVal, Absent>>, <<0, MaxTime>>,
                   <<Absent, Absent>>}
CreateStore == \E m \in Modes, p \in CreatePayloads :
                   Idle /\ nextUid <= MaxStoreEvents
                   /\ CreateEvent(m, Payload(p[1], p[2]), NoFail)
UpdateStore == \E m \in Modes, u \in KnownUids, p \in UpdatePayloads :
                   Idle /\ UpdateEvent(m, u, Payload(p[1], p[2]), NoFail)
RestartNow == Idle /\ Restart(0, 0, TRUE)
NextStore ==
    \/ CreateStore
    \/ UpdateStore
    \/ Delete
    \/ RunTask
    \/ RestartNow
SpecStore == InitDefault /\ [][NextStore]_vars

\* (4) the link: creates and deletes through both calendars, restarts, time
CreateLink == \E m \in Modes, p \in CreatePayloads :
                  Idle /\ CreateEvent(m, Payload(p[1], p[2]), NoFail)
NextLink ==
    \/ CreateLink
    \/ Delete
    \/ RunTask
    \/ AdvanceTime
    \/ Restarts
SpecLink == InitDefault /\ [][NextLink]_vars

\* (5) the event store with Store writes that may fail
MaxFailEvents == 2
CreateFail == \E m \in Modes, fail \in Failures :
                  /\ Idle
                  /\ nextUid <= MaxFailEvents
                  /\ CreateEvent(m, Payload(0, MaxTime), fail)
UpdateFail == \E m \in Modes, u \in KnownUids, fail \in Failures :
                  Idle /\ UpdateEvent(m, u, Payload(Absent, 1), fail)
DeleteFail == \E m \in Modes, u \in KnownUids, fail \in Failures :
                  Idle /\ DeleteEvent(m, u, fail)
NextFail ==
    \/ CreateFail
    \/ UpdateFail
    \/ DeleteFail
    \/ RunTask
    \/ RestartNow
SpecFail == InitDefault /\ [][NextFail]_vars

\* (6) the switch under reloads of the entry that leave the link option as
\*     it is
ReloadSame == Idle /\ ReloadEntry(linkEnabled)
NextReload ==
    \/ SwitchCommands
    \/ Timers
    \/ StaleTimers
    \/ RunTask
    \/ AdvanceTime
    \/ ReloadSame
SpecReload == InitDefault /\ [][NextReload]_vars

\* (7) the event store under payloads that carry a summary, a description
\*     and link metadata keys
MaxExtraEvents == 2
WithKeys(p, summary, description, linked, bris_uid) ==
    [p EXCEPT !.summary = summary, !.description = description,
              !.linked_from_bris = linked, !.bris_event_uid = bris_uid]
CreateExtraPayloads ==
    {WithKeys(Payload(0, MaxTime), "A", "D", FALSE, EmptyUid),
     WithKeys(Payload(0, MaxTime), "A", "D", TRUE, 1)}
UpdateExtraPayloads ==
    {Payload(Absent, 1),
     WithKeys(NoPayload, "B", NoKey, FALSE, EmptyUid),
     WithKeys(NoPayload, NoKey, NoneStr, FALSE, EmptyUid),
     WithKeys(NoPayload, "", "", FALSE, EmptyUid),
     WithKeys(NoPayload, NoKey, NoKey, TRUE, EmptyUid)}
CreateExtra == \E m \in Modes, p \in CreateExtraPayloads :
                   Idle /\ nextUid <= MaxExtraEvents /\ CreateEvent(m, p, NoFail)
UpdateExtra == \E m \in Modes, u \in KnownUids, p \in UpdateExtraPayloads :
                   Idle /\ UpdateEvent(m, u, p, NoFail)
NextExtra ==
    \/ CreateExtra
    \/ UpdateExtra
    \/ RunTask
SpecExtra == InitDefault /\ [][NextExtra]_vars

\* (8) queries over stores of well-formed events of both modes, some of them
\*     with an endpoint an update has set to None, after restarts too
MaxQueryEvents == 2
CreateQuery == \E m \in Modes, s \in Instants, e \in Instants :
                   /\ Idle /\ s < e /\ nextUid <= MaxQueryEvents
                   /\ CreateEvent(m, Payload(s, e), NoFail)
UpdateQuery == \E m \in Modes, u \in KnownUids :
                   Idle /\ UpdateEvent(m, u, Payload(NoneVal, Absent), NoFail)
NextQuery ==
    \/ CreateQuery
    \/ UpdateQuery
    \/ Queries
    \/ RunTask
    \/ RestartNow
SpecQuery == InitDefault /\ [][NextQuery]_vars

\* (9) the link in the tick: one Bris event at a time, commands to the No
\*     Tachnun switch from outside that arrive when no task is waiting, link
\*     on, default_durations as shipped
MaxForceEvents == 1
InitLinked == InitDefault /\ linkEnabled
CreateForce == \E s \in Instants, e \in Instants :
                   /\ Idle /\ s < e /\ nextUid <= MaxForceEvents
                   /\ CreateEvent(LinkSource, Payload(s, e), NoFail)
TargetCommands == \/ Idle /\ TurnOn(LinkTarget, Absent)
                  \/ Idle /\ TurnOff(LinkTarget)
SourceTick == PeriodicTick(LinkSource)
NextForce ==
    \/ CreateForce
    \/ DeleteStored
    \/ TargetCommands
    \/ SourceTick
    \/ RunTask
    \/ AdvanceTime
SpecForce == InitLinked /\ [][NextForce]_vars

\* (10) the link propagation of updates: events with a summary, updates of
\*      the summary and of the end, reloads that switch the link option
MaxSyncEvents == 2
CreateSync == \E m \in Modes :
                  /\ Idle /\ nextUid <= MaxSyncEvents
                  /\ CreateEvent(m, WithKeys(Payload(0, MaxTime), "A", NoKey, FALSE, EmptyUid),
                                 NoFail)
UpdateSyncPayloads ==
    {Payload(Absent, 1), WithKeys(NoPayload, "B", NoKey, FALSE, EmptyUid)}
UpdateSync == \E m \in Modes, u \in KnownUids, p \in UpdateSyncPayloads :
                  Idle /\ UpdateEvent(m, u, p, NoFail)
NextSync ==
    \/ CreateSync
    \/ UpdateSync
    \/ Delete
    \/ Reloads
    \/ RunTask
SpecSync == InitDefault /\ [][NextSync]_vars

\* (11) commands that arrive while a handler of the same calendar waits for
\*      its write
MaxPending == 2
MaxConcEvents == 2
BeginCreates == \E m \in Modes, e \in {1, MaxTime} :
                    /\ queue = <<>> /\ Len(pending) < MaxPending
                    /\ nextUid <= MaxConcEvents
                    /\ BeginCreate(m, Payload(0, e))
BeginUpdates == \E m \in Modes, u \in KnownUids :
                    /\ queue = <<>> /\ Len(pending) < MaxPending
                    /\ BeginUpdate(m, u, Payload(Absent, 1))
BeginDeletes == \E m \in Modes, u \in KnownUids :
                    /\ queue = <<>> /\ Len(pending) < MaxPending
                    /\ BeginDelete(m, u)
NextConc ==
    \/ BeginCreates
    \/ BeginUpdates
    \/ BeginDeletes
    \/ Resume
    \/ RunTask
SpecConc == InitDefault /\ [][NextConc]_vars

\* (12) the sensor manager: events come and go through both calendars,
\*      notifications of another entry arrive, minutes and a day pass
MaxSensorEvents == 2
CreateSensor == \E m \in Modes, s \in Instants, e \in Instants :
                    /\ Idle /\ s < e /\ nextUid <= MaxSensorEvents
                    /\ CreateEvent(m, Payload(s, e), NoFail)
ForeignEvents == {<<>>, <<NewEvent(1, LinkSource, 0, 1, DefaultSummary, NoPayload)>>}
ForeignNotification == \E events \in ForeignEvents : Notification(OtherEntry, events)
NextSensor ==
    \/ CreateSensor
    \/ DeleteStored
    \/ MgrTick
    \/ ForeignNotification
    \/ RunTask
    \/ AdvanceTime
    \/ AdvanceDay
SpecSensor == InitDefault /\ [][NextSensor]_vars

\* ---------------------------------------------------------------- properties
\* the steps that run _tick of last.mode: the periodic tick and the handlers
TickOps == {"tick", "create", "update", "delete"}
TickRan(m) == last.op \in TickOps /\ last.result = "ok" /\ last.mode = m

WellFormed(e) == ParseDatetime(e.start) # NoneVal /\ ParseDatetime(e.end) # NoneVal
Contains(e, t) == WellFormed(e) /\ e.start <= t /\ t < e.end

\* the calendar of m holds an event of m whose window contains now
HasActive(m) ==
    \E i \in 1..Len(events_all[m]) :
        obj[events_all[m][i]].mode_key = m /\ Contains(obj[events_all[m][i]], now)

\* the calendar of m holds an event of m that has ended
HasEnded(m) ==
    \E i \in 1..Len(events_all[m]) :
        LET e == obj[events_all[m][i]] IN
        e.mode_key = m /\ WellFormed(e) /\ e.end <= now

\* an event of m whose window contains now is stored, in a calendar or on disk
StoredActive(m) ==
    \/ \E k \in Modes : \E i \in 1..Len(events_all[k]) :
          obj[events_all[k][i]].mode_key = m /\ Contains(obj[events_all[k][i]], now)
    \/ \E i \in 1..Len(persisted) :
          persisted[i].mode_key = m /\ Contains(persisted[i], now)

\* the last step created a task `op` for the switch of m
IssuedTo(m, op) ==
    \E i \in 1..Len(last.issued) : last.issued[i].target = m /\ last.issued[i].op = op

\* the last step ran a task that a tick had created
TickTaskRan(m) ==
    last.op = "task" /\ last.mode = m /\ last.issued[1].src \in {"calendar", "link"}

\* C1: a tick of M with M's override off and an active event of M issues no
\* turn-off to M's switch, whatever else is stored and whatever the switch is.
C1_NoTurnOffWhileActive ==
    \A m \in Modes :
        (TickRan(m) /\ ~ovr[m] /\ HasActive(m)) => ~IssuedTo(m, "turn_off")

\* C2: when the task of a calendar turn-on of M has run, M is ON-INDEFINITE:
\* expire_at is null and no timer is armed, whatever default_minutes is.
C2_CalendarOnIsIndefinite ==
    \A m \in Modes :
        (last.op = "task" /\ last.mode = m /\ last.result = "turn_on"
            /\ last.issued[1].src = "calendar")
        => (sw[m].is_on /\ sw[m].expire_at = NoneVal /\ sw[m].timer = NoneVal)

\* C3: a tick of M that runs while M's override is on issues no turn-on and no
\* turn-off to M's switch.
C3_OverrideSilencesTick ==
    \A m \in Modes :
        (TickRan(m) /\ ovr[m]) => (~IssuedTo(m, "turn_on") /\ ~IssuedTo(m, "turn_off"))

\* C3 witness: a periodic tick ran with the override on while an event was
\* active and the switch off (without the override it would have turned it on)
C3_Witness ==
    \E m \in Modes :
        /\ last.op = "tick" /\ last.mode = m /\ ovr[m]
        /\ HasActive(m) /\ ~sw[m].is_on

\* C4: while M's override is on and an event of M overlapping now is stored, no
\* task created by a tick (of any mode) changes is_on or expire_at of M.
C4_OverrideShieldsSwitch ==
    [][\A m \in Modes :
          (TickTaskRan(m)' /\ ovr[m] /\ StoredActive(m))
          => (sw'[m].is_on = sw[m].is_on /\ sw'[m].expire_at = sw[m].expire_at)]_vars

\* C5: with M's override off, once a tick of M has run and nothing is left to
\* apply, M is ON with expire_at null while an event of M contains now, and OFF
\* when none does.
C5_SwitchFollowsWindow ==
    \A m \in Modes :
        (last.op = "tick" /\ last.mode = m /\ last.issued = <<>> /\ queue = <<>>
            /\ ~ovr[m])
        => IF HasActive(m)
           THEN sw[m].is_on /\ sw[m].expire_at = NoneVal
           ELSE ~sw[m].is_on

\* every event dict held by a calendar or by the persisted collection
StoredEvents ==
    UNION {{obj[events_all[m][i]] : i \in 1..Len(events_all[m])} : m \in Modes}
    \cup {persisted[i] : i \in 1..Len(persisted)}

\* C6: every stored event has a well-formed start and end with end > start,
\* after any sequence of create, update and delete commands.
C6_StoredEventsValid ==
    \A e \in StoredEvents : WellFormed(e) /\ e.end > e.start

\* C7: an update or delete sent to the No Tachnun calendar for an event it
\* holds with linked_from_bris set is rejected: the lists, the dicts, the
\* persisted collection and the switches stay as they are, nothing is published.
C7_LinkedEventIsReadOnly ==
    [][\A u \in UIDs :
          (/\ last'.op \in {"update", "delete"}
           /\ last'.mode = LinkTarget
           /\ last'.uid = u
           /\ obj[u].linked
           /\ \E i \in 1..Len(events_all[LinkTarget]) : events_all[LinkTarget][i] = u)
          => (/\ last'.result = "policy"
              /\ last'.published = 0
              /\ last'.issued = <<>>
              /\ UNCHANGED <<events_all, obj, persisted, sw, ovr, queue>>)]_vars

\* C7 witness: the No Tachnun calendar turned down an update of a linked event
C7_Witness ==
    /\ last.op = "update" /\ last.mode = LinkTarget /\ last.result = "policy"
    /\ obj[last.uid].linked
    /\ \E i \in 1..Len(events_all[LinkTarget]) : events_all[LinkTarget][i] = last.uid

\* the entries of a collection of dicts that are linked to the Bris event u
LinkedTo(evs, u) ==
    {i \in 1..Len(evs) : evs[i].mode_key = LinkTarget /\ evs[i].bris_uid = u}

DictsOf(evs) == {evs[i] : i \in 1..Len(evs)}

\* the Bris event u itself and the No Tachnun event linked to it
BrisOrLinked(e, u) ==
    \/ e.uid = u /\ e.mode_key = LinkSource
    \/ e.mode_key = LinkTarget /\ e.bris_uid = u

\* C9: with linking on, deleting the Bris event u removes from the store (the
\* Bris calendar's list and the persisted collection) exactly u and the event
\* linked to u; every other stored event stays as it is.
C9_DeleteRemovesExactlyPair ==
    [][\A u \in UIDs :
          (/\ last'.op = "delete" /\ last'.result = "ok"
           /\ last'.mode = LinkSource /\ last'.uid = u /\ linkEnabled)
          => (/\ DictsOf(Deref(obj', events_all'[LinkSource]))
                   = {e \in DictsOf(Deref(obj, events_all[LinkSource])) : ~BrisOrLinked(e, u)}
              /\ DictsOf(persisted')
                   = {e \in DictsOf(persisted) : ~BrisOrLinked(e, u)})]_vars

\* C10: turn_on(minutes = m), m > 0, arms a timer for exactly m minutes later;
\* an armed timer belongs to an ON switch and is due at expire_at, which is
\* never in the past; and once the timer's turn-off has run the switch is OFF
\* with controlled_by = timer, expire_at = null and no timer, a state that a
\* further expiry leaves as it is.
C10_TimedOnExpiresToOff ==
    \A m \in Modes :
        /\ (last.op = "turn_on" /\ last.mode = m /\ last.arg > 0)
           => (/\ sw[m].is_on
               /\ sw[m].expire_at = now + last.arg
               /\ sw[m].timer = (now + last.arg) * SecondsPerMinute)
        /\ (sw[m].timer # NoneVal)
           => (/\ sw[m].is_on
               /\ sw[m].timer = sw[m].expire_at * SecondsPerMinute
               /\ now <= sw[m].expire_at)
        /\ (sw[m].is_on /\ sw[m].expire_at # NoneVal) => now <= sw[m].expire_at
        /\ (last.op = "task" /\ last.mode = m /\ last.issued[1].by = "timer")
           => (/\ ~sw[m].is_on
               /\ sw[m].controlled_by = "timer"
               /\ sw[m].expire_at = NoneVal
               /\ sw[m].timer = NoneVal /\ ~sw[m].unsub
               /\ SwitchTurnOff(sw[m], "timer") = sw[m])

\* C10 witness: the turn-off of an expired timer has run, after time has passed
C10_Witness ==
    \E m \in Modes :
        /\ last.op = "task" /\ last.mode = m /\ last.issued[1].by = "timer"
        /\ now > 0 /\ ~sw[m].is_on

\* C11: in every state every mode switch has at most one timer pending.
C11_AtMostOneTimer ==
    \A m \in Modes : NumPending(sw[m]) <= 1

\* C11 witness: a timed turn_on reached a switch that had a timer armed, and
\* one timer is pending after it
C11_Witness ==
    \E m \in Modes :
        /\ last.op = "turn_on" /\ last.mode = m /\ last.arg > 0
        /\ last.armed_before = 1
        /\ NumPending(sw[m]) = 1

\* the switch is ON-TIMED until now + minutes, with that one timer armed
OnTimed(s, minutes) ==
    /\ s.is_on
    /\ s.expire_at = now + minutes
    /\ s.timer = (now + minutes) * SecondsPerMinute
    /\ NumPending(s) = 1

\* the switch is ON-INDEFINITE: no expire_at, no timer
OnIndefinite(s) == s.is_on /\ s.expire_at = NoneVal /\ NumPending(s) = 0

\* C12 as stated: turn_on(minutes) gives ON-TIMED(now + minutes) with one
\* timer if minutes > 0, and ON-INDEFINITE if minutes is 0 or absent.
C12_TurnOnAsStated ==
    \A m \in Modes :
        (last.op = "turn_on" /\ last.mode = m)
        => IF last.arg > 0 THEN OnTimed(sw[m], last.arg) ELSE OnIndefinite(sw[m])

\* C12 amended: an absent minutes stands for the switch's default_minutes;
\* the minutes in effect give ON-TIMED if > 0 and ON-INDEFINITE if 0.
C12_TurnOnUsesDefault ==
    \A m \in Modes :
        (last.op = "turn_on" /\ last.mode = m)
        => LET mn == IF last.arg = Absent THEN sw[m].default_minutes ELSE last.arg
           IN IF mn > 0 THEN OnTimed(sw[m], mn) ELSE OnIndefinite(sw[m])

\* C12 witness: a turn_on without minutes reached a switch whose
\* default_minutes is positive
C12_Witness ==
    \E m \in Modes :
        /\ last.op = "turn_on" /\ last.mode = m /\ last.arg = Absent
        /\ sw[m].default_minutes > 0
        /\ sw[m].expire_at = now + sw[m].default_minutes

\* C13: after turn_off, as a command or as a task, the switch is OFF with
\* expire_at = null and no timer is left pending that could fire later.
C13_TurnOffCancelsTimer ==
    \A m \in Modes :
        (/\ last.mode = m
         /\ \/ last.op = "turn_off"
            \/ last.op = "task" /\ last.result = "turn_off")
        => (/\ ~sw[m].is_on
            /\ sw[m].expire_at = NoneVal
            /\ NumPending(sw[m]) = 0
            /\ ~sw[m].unsub)

\* C13 witness: a turn_off command reached a switch with a timer armed
C13_Witness ==
    \E m \in Modes :
        /\ last.op = "turn_off" /\ last.mode = m /\ last.armed_before = 1
        /\ ~sw[m].is_on

\* the switch is OFF with no expire_at and no timer
OffClean(s) == ~s.is_on /\ s.expire_at = NoneVal /\ NumPending(s) = 0

\* C14 as stated: a record ON with expire_at = t, restored at an instant
\* r < t, gives ON with expire_at = t and exactly one timer, due at t.
C14_RestoreRearmsAsStated ==
    [][\A m \in Modes :
          (last'.op = "restart" /\ last'.found[m] = "on_timed")
          => (/\ sw'[m].is_on
              /\ sw'[m].expire_at = sw[m].expire_at
              /\ NumPending(sw'[m]) = 1
              /\ sw'[m].timer = sw[m].expire_at * SecondsPerMinute)]_vars

\* C14 amended: the same when more than one second remains (t - r > 1 s);
\* when one second or less remains the switch is restored OFF with
\* expire_at = null and no timer.
C14_RestoreRearmsRemaining ==
    [][\A m \in Modes :
          (last'.op = "restart" /\ last'.found[m] = "on_timed")
          => IF sw[m].expire_at * SecondsPerMinute
                  - (now' * SecondsPerMinute + last'.arg) > RestoreMinRemaining
             THEN /\ sw'[m].is_on
                  /\ sw'[m].expire_at = sw[m].expire_at
                  /\ NumPending(sw'[m]) = 1
                  /\ sw'[m].timer = sw[m].expire_at * SecondsPerMinute
             ELSE OffClean(sw'[m])]_vars

\* C14 witness: a restart in the middle of a minute found a record ON with
\* expire_at ahead; the switch is ON with its timer due at expire_at, less
\* than a full minute away
C14_Witness ==
    \E m \in Modes :
        /\ last.op = "restart" /\ last.found[m] = "on_timed"
        /\ last.arg > 0
        /\ sw[m].is_on /\ sw[m].timer = sw[m].expire_at * SecondsPerMinute
        /\ sw[m].timer - (now * SecondsPerMinute + last.arg) < SecondsPerMinute

\* C15: restore maps a record OFF to OFF, ON without expire_at to
\* ON-INDEFINITE without a timer, ON with expire_at already passed to OFF
\* with expire_at = null and no timer, and no record to OFF.
C15_RestoreMapping ==
    [][\A m \in Modes :
          (last'.op = "restart")
          => /\ (last'.found[m] \in {"off", "on_expired", "none"}) => OffClean(sw'[m])
             /\ (last'.found[m] = "on_indefinite") => OnIndefinite(sw'[m])
             /\ (last'.found[m] = "none") => sw'[m].controlled_by = "manual"]_vars

\* C15 witness: a restart found a record ON whose expire_at had passed and
\* left the switch OFF
C15_Witness ==
    \E m \in Modes :
        /\ last.op = "restart" /\ last.found[m] = "on_expired"
        /\ OffClean(sw[m])

\* C16: at the startup signal a switch restored ON and OFF by then is forced
\* ON with controlled_by = restore: ON-TIMED with the restored expire_at and
\* a timer for the remaining time if that expire_at is still ahead, else
\* ON-INDEFINITE; a switch that is ON, or was not restored ON, is left as is.
C16_ReassertRestoresIntent ==
    [][\A m \in Modes :
          (last'.op = "started")
          => IF last'.found[m] = "off"
             THEN /\ sw'[m].is_on
                  /\ sw'[m].controlled_by = "restore"
                  /\ IF sw[m].restored_expire_at # NoneVal
                        /\ sw[m].restored_expire_at > now
                     THEN /\ sw'[m].expire_at = sw[m].restored_expire_at
                          /\ NumPending(sw'[m]) = 1
                          /\ sw'[m].timer = sw[m].restored_expire_at * SecondsPerMinute
                     ELSE OnIndefinite(sw'[m])
             ELSE sw'[m] = sw[m]]_vars

\* C17: the daily reset turns off exactly the mode switches that are ON; each
\* of them ends OFF with controlled_by = auto_reset, expire_at = null and no
\* timer; a switch that is OFF gets no command and keeps its state and
\* controlled_by; no override changes.
C17_DailyResetTurnsOffOnSwitches ==
    [][/\ (last'.op = "auto_reset")
          => /\ \A m \in Modes :
                  Cardinality({i \in 1..Len(last'.issued) :
                                  /\ last'.issued[i].target = m
                                  /\ last'.issued[i].op = "turn_off"
                                  /\ last'.issued[i].by = "auto_reset"})
                    = IF sw[m].is_on THEN 1 ELSE 0
             /\ Len(last'.issued) = Cardinality({m \in Modes : sw[m].is_on})
             /\ queue' = last'.issued
             /\ sw' = sw /\ ovr' = ovr
       /\ (last'.op = "task" /\ last'.issued[1].src = "auto_reset")
          => /\ OffClean(sw'[last'.mode])
             /\ sw'[last'.mode].controlled_by = "auto_reset"
             /\ \A m \in Modes \ {last'.mode} : sw'[m] = sw[m]
             /\ ovr' = ovr]_vars

\* C17 witness: the daily reset's turn-off reached a switch that was ON with
\* a timer armed, while the other switch is OFF and was never reset
C17_Witness ==
    \E m \in Modes :
        /\ last.op = "task" /\ last.mode = m /\ last.issued[1].src = "auto_reset"
        /\ last.armed_before = 1
        /\ OffClean(sw[m]) /\ sw[m].controlled_by = "auto_reset"
        /\ \E m2 \in Modes \ {m} : ~sw[m2].is_on /\ sw[m2].controlled_by = "manual"

\* in a list of dicts every Bris event has a linked No Tachnun event with its
\* start and end, and every linked event has its Bris event
LinkApplied(evs) ==
    /\ \A i \in 1..Len(evs) :
          evs[i].mode_key = LinkSource
          => \E j \in 1..Len(evs) :
                /\ evs[j].mode_key = LinkTarget /\ evs[j].bris_uid = evs[i].uid
                /\ evs[j].start = evs[i].start /\ evs[j].end = evs[i].end
    /\ \A j \in 1..Len(evs) :
          (evs[j].mode_key = LinkTarget /\ evs[j].linked)
          => \E i \in 1..Len(evs) :
                evs[i].mode_key = LinkSource /\ evs[i].uid = evs[j].bris_uid

\* C18: with linking on, every notification sent by a create, update or
\* delete of a Bris event carries the lists with the link already applied:
\* no Bris event without its linked event, no linked event with a stale
\* window, no linked event whose Bris event is gone.
C18_LinkBeforeNotification ==
    (/\ last.op \in {"create", "update", "delete"} /\ last.result = "ok"
     /\ last.mode = LinkSource /\ linkEnabled)
    => \A i \in 1..Len(last.payloads) : LinkApplied(last.payloads[i].payload)

\* C19: every notification is sent after the save of the list it carries (the
\* Store holds that list when it is sent), the last save is the one of the
\* last notification, and a rejected command sends none.
C19_PersistBeforePublish ==
    /\ \A i \in 1..Len(last.payloads) :
          last.payloads[i].saved = last.payloads[i].payload
    /\ last.published = Len(last.payloads)
    /\ (last.op \in {"create", "update", "delete"} /\ last.result = "ok")
       => /\ Len(last.payloads) >= 1
          /\ persisted = last.payloads[Len(last.payloads)].payload
    /\ (last.result \in {"invalid", "not_found", "policy"})
       => last.payloads = <<>>

\* C19 witness: a Bris create with linking on sent two notifications, each
\* after its save
C19_Witness ==
    /\ last.op = "create" /\ last.result = "ok" /\ Len(last.payloads) = 2
    /\ last.payloads[1].saved # last.payloads[2].saved
    /\ persisted = last.payloads[2].payload

\* the events created and not deleted, whichever calendar holds them
LiveEvents == UNION {DictsOf(Deref(obj, events_all[m])) : m \in Modes}

\* C20: the last notification of every successful create or delete carries
\* all events of the entry that were created and not deleted, of all modes.
C20_PayloadIsFullList ==
    (last.op \in {"create", "delete"} /\ last.result = "ok")
    => DictsOf(last.payloads[Len(last.payloads)].payload) = LiveEvents

\* C21: when the Store write of a create, update or delete fails, the list of
\* the calendar is afterwards what it was before the command, the Store is
\* untouched and no notification is sent; when the write of the link
\* propagation fails, the list is afterwards the collection the Store holds
\* and the propagation sends no notification.
C21_FailedWriteRollsBack ==
    [][/\ last'.result = "write_failed"
          => /\ Deref(obj', events_all'[last'.mode]) = Deref(obj, events_all[last'.mode])
             /\ persisted' = persisted
             /\ last'.published = 0 /\ last'.payloads = <<>>
       /\ last'.result = "link_write_failed"
          => /\ Deref(obj', events_all'[last'.mode]) = persisted'
             /\ last'.published = 1]_vars

\* C22: a create whose start or end is missing or malformed or whose end is
\* not after its start, and an update or delete with an empty uid, goes no
\* further than its rejection: the lists, the dicts, the Store, the switches
\* and the waiting tasks stay as they are, no tick runs and nothing is sent;
\* so a create that goes through has well-formed endpoints with start < end,
\* and an update or delete that goes through has a uid.
C22_InvalidCommandChangesNothing ==
    [][/\ last'.result = "invalid"
          => /\ UNCHANGED <<events_all, obj, persisted, sw, ovr, queue,
                            linked_nt_on, nextUid>>
             /\ last'.issued = <<>>
             /\ last'.published = 0 /\ last'.payloads = <<>>
       /\ (last'.op = "create" /\ last'.result = "ok")
          => /\ last'.event.start \in Instants
             /\ last'.event.end \in Instants
             /\ last'.event.start < last'.event.end
       /\ (last'.op \in {"update", "delete"} /\ last'.result = "ok")
          => last'.uid # EmptyUid]_vars

\* C22 witness: a create was rejected as invalid while events are stored
C22_Witness ==
    /\ last.op = "create" /\ last.result = "invalid"
    /\ persisted # <<>>
    /\ \E m \in Modes : events_all[m] # <<>>

\* C23: an update or delete sent to the calendar of mode M with a uid that
\* M's partition does not hold (a uid never handed out, or the uid of an
\* event of another mode) is reported not found and changes nothing: lists,
\* dicts, Store, switches and waiting tasks stay as they are and nothing is
\* sent; so an update or delete that goes through was addressed to an event
\* of M that M's list held.
C23_UnknownUidIsNoOp ==
    [][/\ last'.result = "not_found"
          => /\ UNCHANGED <<events_all, obj, persisted, sw, ovr, queue,
                            linked_nt_on, nextUid>>
             /\ last'.issued = <<>>
             /\ last'.published = 0 /\ last'.payloads = <<>>
       /\ (last'.op \in {"update", "delete"} /\ last'.result = "ok")
          => /\ last'.uid \in UIDs
             /\ obj[last'.uid].uid = last'.uid
             /\ obj[last'.uid].mode_key = last'.mode
             /\ \E i \in 1..Len(events_all[last'.mode]) :
                    events_all[last'.mode][i] = last'.uid]_vars

\* C23 witness: a delete sent to one calendar for an event that its list
\* holds but that belongs to the other mode was reported not found
C23_Witness ==
    /\ last.op = "delete" /\ last.result = "not_found"
    /\ last.uid \in UIDs
    /\ obj[last.uid].uid = last.uid
    /\ obj[last.uid].mode_key # last.mode
    /\ \E i \in 1..Len(events_all[last.mode]) :
           events_all[last.mode][i] = last.uid

\* C24: when the entities of a mode are removed (reload or unload of the
\* entry), the armed timer of its switch is cancelled with them: no removed
\* switch object keeps a pending timer, and no timer callback of a removed
\* object runs.  (The tick is detached by the calendar's
\* async_will_remove_from_hass: a removed calendar has no tick step.)
C24_RemovalCancelsTimer ==
    /\ \A m \in Modes : sw[m].stale = {}
    /\ ~(last.op = "timer_fire" /\ last.result = "removed")

\* C25: link metadata is written by the link propagation alone: the event a
\* create command sent to a calendar stores for its payload has neither
\* linked_from_bris nor bris_event_uid, whatever keys the payload carries, and
\* an update command leaves both keys of the event it addresses as they were.
C25_LinkMetadataOnlyFromLink ==
    [][/\ (last'.op = "create" /\ last'.result = "ok")
          => /\ ~obj'[last'.uid].linked
             /\ obj'[last'.uid].bris_uid = EmptyUid
       /\ (last'.op = "update" /\ last'.result = "ok")
          => /\ obj'[last'.uid].linked = obj[last'.uid].linked
             /\ obj'[last'.uid].bris_uid = obj[last'.uid].bris_uid]_vars

\* C26: every switch command that the reconciliation tick issued (its own
\* mode's turn-on / turn-off and the forced turn-on / turn-off of the link
\* target) leaves the switch it reaches with controlled_by = "calendar".
C26_TickTransitionsTaggedCalendar ==
    (last.op = "task" /\ last.issued[1].src \in {"calendar", "link"})
       => sw[last.mode].controlled_by = "calendar"

\* the entries of a list of dicts that a query of mode m over [ws, we] is to
\* return: the events of m with start <= we and end >= ws
Overlapping(evs, m, ws, we) ==
    {i \in 1..Len(evs) : /\ evs[i].mode_key = m
                         /\ WellFormed(evs[i])
                         /\ evs[i].start <= we
                         /\ evs[i].end >= ws}

MirrorOf(u, b) ==
    obj[u].mode_key = LinkTarget /\ obj[u].bris_uid = b /\ b # EmptyUid

C29_LinkUndoesOnlyItsOwnOn ==
    [][(/\ last'.op = "task"
        /\ last'.result = "turn_off"
        /\ last'.issued[1].src = "link"
        /\ sw[LinkTarget].is_on)
       => sw[LinkTarget].forced_on]_vars

\* C30: with linking on, after an update of the Bris event u that went
\* through, every No Tachnun event with bris_event_uid = u in the Bris
\* calendar's list and in the Store has the start and the end of the updated
\* Bris event and the summary "Bris: " + its summary; and if the list held
\* no such event, the update adds none and leaves every other event alone.
C30_UpdateMirrorsToLinked ==
    [][(/\ last'.op = "update" /\ last'.result = "ok"
        /\ last'.mode = LinkSource /\ linkEnabled)
       => LET u == last'.uid
              before == Deref(obj, events_all[LinkSource])
              after == Deref(obj', events_all'[LinkSource])
          IN /\ \A evs \in {after, persisted'} :
                   \A i \in LinkedTo(evs, u) :
                      /\ evs[i].start = obj'[u].start
                      /\ evs[i].end = obj'[u].end
                      /\ evs[i].summary = LinkSummary(obj'[u].summary)
             /\ LinkedTo(after, u) = LinkedTo(before, u)
             /\ LinkedTo(before, u) = {}
                   => /\ events_all' = events_all
                      /\ nextUid' = nextUid
                      /\ LinkedTo(persisted', u) = {}
                      /\ \A v \in UIDs \ {u} : obj'[v] = obj[v]]_vars

\* C30 witness: with linking on, an update gave a Bris event the summary "B"
\* and its No Tachnun event in the Store reads "Bris: B"
C30_Witness ==
    /\ last.op = "update" /\ last.result = "ok"
    /\ last.mode = LinkSource /\ linkEnabled
    /\ last.event.summary = "B"
    /\ \E i \in LinkedTo(persisted, last.uid) :
           persisted[i].summary = LinkSummary("B")

\* with linking on, an update of a Bris event that has no No Tachnun event
\* (it was created while linking was off) went through
C30_UnlinkedUpdated ==
    /\ last.op = "update" /\ last.result = "ok"
    /\ last.mode = LinkSource /\ linkEnabled
    /\ LinkedTo(persisted, last.uid) = {}

\* the positions in the list of m of the events of m whose window contains now
ContainingNow(m) ==
    {i \in 1..Len(events_all[m]) :
        obj[events_all[m][i]].mode_key = m /\ Contains(obj[events_all[m][i]], now)}

\* among them, the one with the earliest start, the first in store order
\* among those of equal start
EarliestFirst(m) ==
    CHOOSE i \in ContainingNow(m) :
        \A j \in ContainingNow(m) :
            LET a == obj[events_all[m][i]]
                b == obj[events_all[m][j]]
            IN a.start < b.start \/ (a.start = b.start /\ i <= j)

\* C31: a tick of M publishes as active event, and as the calendar's current
\* event, the stored event of M containing now that has the earliest start
\* (the first in store order among equal starts); when no event of M contains
\* now it publishes no active event.
C31_ActiveIsEarliestStart ==
    \A m \in Modes :
        TickRan(m) =>
            IF ContainingNow(m) = {}
            THEN last.active = NoObj
            ELSE /\ last.active = obj[events_all[m][EarliestFirst(m)]]
                 /\ last.current = last.active

\* the handlers of calendar m that wait for their write
Waiting(m) == SelectSeq(pending, LAMBDA h : h.mode = m)

\* C32: mutations of one mode do not interleave: a create, update or delete
\* of M changes M's collection only when no other handler of M waits for its
\* write, and the notification a handler sends carries the list as its own
\* change left it.
C32_MutationsDoNotInterleave ==
    [][/\ \A m \in Modes :
            (last'.result = "suspended" /\ last'.mode = m) => Waiting(m) = <<>>
       /\ last'.result = "resumed"
            => last'.payloads[1].payload = Head(pending).snapshot]_vars

\* the last step wrote the state of the switch of m as ON: a turn-on (a
\* command or a task), the restore of a restart or of a reload, or a reassert
\* that found the switch off
WroteOn(m) ==
    /\ sw[m].is_on
    /\ \/ last.op = "turn_on" /\ last.mode = m
       \/ last.op = "task" /\ last.mode = m /\ last.result = "turn_on"
       \/ last.op \in {"restart", "reload"}
       \/ last.op = "started" /\ last.found[m] = "off"

\* the seconds into the minute `now` at which the last step wrote
WriteOffset == IF last.op = "restart" THEN last.arg ELSE 0

\* C33: a switch written ON with a non-null expire_at has an expire_at
\* strictly later than the instant of the write.
C33_ExpireAtIsFuture ==
    \A m \in Modes :
        (WroteOn(m) /\ sw[m].expire_at # NoneVal)
        => sw[m].expire_at * SecondsPerMinute > now * SecondsPerMinute + WriteOffset

\* C33 witness: a restart late in the minute restored a switch ON-TIMED
C33_Witness ==
    \E m \in Modes :
        /\ last.op = "restart" /\ last.arg > 0
        /\ sw[m].is_on /\ sw[m].expire_at # NoneVal

\* the uids of the persisted collection
PersistedUids == {persisted[i].uid : i \in 1..Len(persisted)}

\* the events that were created (or loaded) and not deleted: an event of mode
\* M is created and deleted through the calendar of M, a linked event through
\* the calendar of Bris
LiveOwn(m) ==
    {events_all[m][i] : i \in {j \in 1..Len(events_all[m]) :
                                 \/ obj[events_all[m][j]].mode_key = m
                                 \/ m = LinkSource /\ obj[events_all[m][j]].linked}}

\* C34: the persisted collection holds exactly the events of all modes that
\* were created and not deleted.
C34_PersistedLosesNoEvent ==
    PersistedUids = UNION {LiveOwn(m) : m \in Modes}

\* the linked events the link has stored: the No Tachnun dicts with
\* linked_from_bris set that some calendar's list holds
StoredLinked ==
    {u \in Referenced(events_all) : obj[u].mode_key = LinkTarget /\ obj[u].linked}

\* C35: an event stored in the partition of M is seen by M's own calendar: a
\* stored linked No Tachnun event is returned by a query of the No Tachnun
\* calendar whose window it overlaps, and an update or delete of it sent to
\* the No Tachnun calendar is rejected by the link policy.
C35_LinkedEventSeenByTarget ==
    \A u \in StoredLinked :
        /\ (last.op = "query" /\ last.mode = LinkTarget
              /\ obj[u].start <= last.window[2] /\ obj[u].end >= last.window[1])
           => \E j \in 1..Len(last.returned) : last.returned[j].uid = u
        /\ (last.op \in {"update", "delete"} /\ last.mode = LinkTarget
              /\ last.uid = u)
           => last.result = "policy"

\* the step runs the turn-off task that a fired timer of m created
TimerTaskRuns(m) ==
    /\ last'.op = "task" /\ last'.mode = m
    /\ last'.issued[1].src = "timer"

\* the switch is ON in a state that a timer which has fired did not arm: it
\* is ON-INDEFINITE, or ON-TIMED with an expire_at still ahead
OnByNewerCommand(s) ==
    s.is_on /\ (s.expire_at = NoneVal \/ s.expire_at > now)

\* C36: the turn-off task of a fired timer leaves alone an ON state set by a
\* turn_on that was applied after the timer fired: the switch stays ON with
\* the newer expire_at and the newer timer stays armed.
C36_TimerTurnsOffOnlyItsOwnOn ==
    [][\A m \in Modes :
          (TimerTaskRuns(m) /\ OnByNewerCommand(sw[m]))
          => /\ sw'[m].is_on
             /\ sw'[m].expire_at = sw[m].expire_at
             /\ sw'[m].timer = sw[m].timer]_vars

\* the ON state of the switch was set by the restore or by the reassert, not
\* by a turn_on applied since: every turn_on writes the controlled_by of its
\* caller, none of which is "restore", and the restored timer has run out
OnWithoutTurnOn(s) ==
    /\ s.is_on
    /\ s.controlled_by = "restore"

\* C37: a switch restored ON-TIMED with expire_at = t is not ON after t unless
\* a turn_on was applied after the restore; the reassert at the startup
\* signal does not turn it back ON once its re-armed timer has fired.
C37_RestoredTimedEndsAtExpiry ==
    \A m \in Modes :
        (sw[m].restored_expire_at # NoneVal /\ now > sw[m].restored_expire_at)
        => ~OnWithoutTurnOn(sw[m])

\* the collection holds a linked No Tachnun event whose bris_event_uid is the
\* uid of no Bris event of the collection
HasOrphan(evs) ==
    \E i \in 1..Len(evs) :
        /\ evs[i].mode_key = LinkTarget /\ evs[i].linked
        /\ ~\E j \in 1..Len(evs) :
              evs[j].mode_key = LinkSource /\ evs[j].uid = evs[i].bris_uid

\* C38: every stored No Tachnun event with linked_from_bris set references a
\* Bris event that is stored, in the persisted collection and in the list of
\* every calendar, whatever the link option was set to between the commands.
C38_LinkedEventHasSource ==
    /\ ~HasOrphan(persisted)
    /\ \A m \in Modes : ~HasOrphan(Deref(obj, events_all[m]))

\* a timer of m has fired and the turn-off task it created has not run yet
TurnOffPending(m) ==
    \E i \in 1..Len(queue) : queue[i].target = m /\ queue[i].src = "timer"

\* C39: the fields of a mode switch agree with OFF, ON-INDEFINITE or ON-TIMED:
\* OFF has no expire_at and no timer armed, ON without expire_at has no timer
\* armed, ON with an expire_at has exactly one timer armed, or its timer has
\* fired and the turn-off is still pending.
C39_SwitchFieldsAgree ==
    \A m \in Modes :
        /\ ~sw[m].is_on => (sw[m].expire_at = NoneVal /\ NumPending(sw[m]) = 0)
        /\ (sw[m].is_on /\ sw[m].expire_at = NoneVal) => NumPending(sw[m]) = 0
        /\ (sw[m].is_on /\ sw[m].expire_at # NoneVal)
           => \/ NumPending(sw[m]) = 1
              \/ NumPending(sw[m]) = 0 /\ TurnOffPending(m)

\* C39 witness: a switch is ON-TIMED, its timer has fired and the turn-off
\* task waits, while the other switch is ON-INDEFINITE
C39_Witness ==
    \E m \in Modes, k \in Modes :
        /\ sw[m].is_on /\ sw[m].expire_at # NoneVal
        /\ NumPending(sw[m]) = 0 /\ TurnOffPending(m)
        /\ sw[k].is_on /\ sw[k].expire_at = NoneVal

\* the uids of the list the last notification of the last step carried
Notified == LET p == last.payloads[Len(last.payloads)].payload
            IN {p[i].uid : i \in 1..Len(p)}

\* the last step sent a notification for this entry
NotifiedHere ==
    /\ last.payloads # <<>>
    /\ ~(last.op = "notification" /\ last.mode # ThisEntry)

====
